---- MODULE Spec2Model ----
(***************************************************************************)
(* Model of the invoice-automation extraction pipeline:                    *)
(*   - the document segmenter of src/src/extraction/regularize_file.py     *)
(*     (detect_invoice_page_groups, process_multi_page_pdf,                *)
(*     split_pdf_by_page_groups),                                          *)
(*   - the vendor resolver of src/src/processing/vendor_identifier.py      *)
(*     (search_vendor_by_signals, identify_vendor_and_get_regex) with the  *)
(*     registry of src/src/storage/database.py,                            *)
(*   - the phase-2 template validation (llm_phase2_generate_regex),        *)
(*   - apply_regex_extraction and the stored form of a template,           *)
(*   - the record builder of src/src/processing/build_dataframe.py,        *)
(*   - call_llm_api and its retry loop,                                    *)
(*   - the batch drivers (src/pages/Upload_Invoices.py, src/main.py),      *)
(*   - two resolver calls running at the same time on one registry.        *)
(* Text values are sequences of one-character strings, so that strip,      *)
(* lower-casing, digit filtering and capture-group counting are computed   *)
(* character by character as the code computes them.                       *)
(***************************************************************************)
EXTENDS Integers, Sequences, FiniteSets, TLC

VARIABLES
    \* ---- segmenter (regularize_file.py) ----
    page_ids,             \* found_id of every page, in page order
    num_pages,            \* len(reader.pages)
    i,                    \* page number the detector loop is at
    current_group,        \* detector: group being built
    current_tracking_id,  \* detector: id of the group being built
    grouped_invoices,     \* detector: closed groups; finally its return value
    groups,               \* process_multi_page_pdf: validated groups
    seg_pc,               \* position inside process_multi_page_pdf
    seg_error,            \* the exception that left process_multi_page_pdf
    source_exists,        \* the original PDF p is still in the staging area
    processed,            \* files in PROCESSED_DIR
    created,              \* split: final paths written so far
    gi,                   \* split: index of the group being written
    ci,                   \* split: index into created during cleanup
    \* ---- vendor registry (database.py) ----
    vendors,              \* collection "vendors" in insertion order; _id = index
    templates,            \* collection "vendor_regex_templates": vendor id -> list
    \* ---- identify_vendor_and_get_regex (vendor_identifier.py) ----
    signals,              \* extract_vendor_signals(text) of the document
    res_pc,               \* position inside identify_vendor_and_get_regex
    lookups,              \* registry queries made by search_vendor_by_signals
    vendor_id,            \* local vendor_id (0 is None)
    matched_by,           \* local matched_by
    phase1,               \* local phase1 (the validated phase-1 object)
    new_regexes,          \* local new_regexes (the validated template)
    new_vendor_id,        \* local new_vendor_id (0 is None)
    llm_calls,            \* number of call_llm_api invocations of this call
    llm_response,         \* what the last call_llm_api invocation produced
    result,               \* the returned dict
    res_error,            \* the exception that left the call
    registry0,            \* the registry as it was when the call began
    \* ---- apply_regex_extraction (vendor_identifier.py) ----
    text,                 \* the document text handed to apply_regex_extraction
    template,             \* a nested template (invoice_level + line_item_level)
    by_template,          \* outcome of apply_regex_extraction(text, template)
    by_stored,            \* outcome of applying the list read back from the registry
    \* ---- get_structured_data_from_text (build_dataframe.py) ----
    extracted_text,       \* the text of the document
    doc_pc,               \* position inside get_structured_data_from_text
    doc_error,            \* the exception that left get_structured_data_from_text
    vendor_context,       \* local vendor_context
    extracted_inv_data,   \* invoice fields returned by apply_regex_extraction
    extracted_li_data,    \* raw items returned by apply_regex_extraction
    inv_df,               \* local inv_df (the header record)
    idx,                  \* _build_line_items_records: index of the raw item at hand
    line_items,           \* _build_line_items_records: records built so far
    category_calls,       \* descriptions handed to _determine_category, in order
    doc_result,           \* the returned (inv_df, li_df)
    \* ---- call_llm_api (vendor_identifier.py) ----
    api_key_set,          \* GEMINI_API_KEY is set in the environment
    service,              \* what the model service does at the 1st, 2nd, 3rd request
    llm_pc,               \* position inside call_llm_api
    attempt,              \* loop variable attempt
    requests,             \* outcomes of the generate_content calls made so far
    waits,                \* the wait_time of every time.sleep so far, in order
    llm_result,           \* what call_llm_api returned or raised
    \* ---- batch drivers (pages/Upload_Invoices.py, main.py) ----
    driver,               \* "upload" (render_upload_section) or "pipeline" (run_pipeline)
    documents,            \* the documents of the batch, in input order
    batch_idx,            \* number of documents the loop has taken
    processed_data,       \* one entry for each document the loop finished with
    seen_invoices,        \* upload loop: the (vendor id, invoice number) pairs seen so far
    batch_pc,             \* position inside the driver
    batch_error,          \* the exception that left the driver
    file_result,          \* process_single_file: the result dict of the file in progress
    \* ---- two concurrent calls of identify_vendor_and_get_regex ----
    running,              \* the call (1 or 2) whose locals the resolver variables hold
    parked,               \* the locals of the other call
    \* ---- _parse_currency_amount (build_dataframe.py) ----
    amount_str,           \* the raw amount handed to _parse_currency_amount
    amount,               \* what _parse_currency_amount returned
    \* ---- get_line_item_category (categorization.py) ----
    raw_description,      \* the description handed to get_line_item_category
    store_reachable,      \* FALSE: a registry call of the categorizer may raise
    item_lookup_map,      \* db.item_lookup_map: cleaned description -> stored category
    categories,           \* db.categories: the master category names
    cat_pc,               \* position of get_line_item_category
    cleaned_description,  \* local: clean_description(description)
    existing_categories,  \* local: the names get_all_category_names returned
    predicted_category,   \* local: what predict_category_with_llm returned
    cat_result,           \* the returned category, or the exception that left the call
    \* ---- save_inv_li_to_db and the edit functions (database.py) ----
    invoices,             \* db.invoices: the stored invoice documents, by id
    db_line_items,        \* db.line_items: the stored line-item documents
    stored_before,        \* both collections as they were when the call began
    save_pc,              \* position of save_inv_li_to_db
    save_inv_df,          \* argument inv_df
    save_li_df,           \* argument li_df
    new_invoice_id,       \* local: result.inserted_id
    save_result,          \* the returned dict
    saves,                \* number of calls so far
    edits,                \* number of calls of the edit functions so far
    edit_result,          \* the dict the last edit function returned
    deleting              \* browse page: the invoice being deleted, 0 for none

segVars == <<page_ids, num_pages, i, current_group, current_tracking_id,
             grouped_invoices, groups, seg_pc, seg_error, source_exists,
             processed, created, gi, ci>>

resVars == <<vendors, templates, signals, res_pc, lookups, vendor_id, matched_by,
             phase1, new_regexes, new_vendor_id, llm_calls, llm_response,
             result, res_error, registry0>>

\* The variables of the later stages, one group for each.
applyVars == <<text, template, by_template, by_stored>>

docVars == <<extracted_text, doc_pc, doc_error, vendor_context,
             extracted_inv_data, extracted_li_data, inv_df, idx, line_items,
             category_calls, doc_result>>

llmVars == <<api_key_set, service, llm_pc, attempt, requests, waits,
             llm_result>>

batchVars == <<driver, documents, batch_idx, processed_data, seen_invoices,
               batch_pc, batch_error, file_result>>

raceVars == <<running, parked>>

amountVars == <<amount_str, amount>>

catVars == <<raw_description, store_reachable, item_lookup_map, categories,
             cat_pc, cleaned_description, existing_categories,
             predicted_category, cat_result>>

saveVars == <<invoices, db_line_items, stored_before, save_pc, save_inv_df,
              save_li_df, new_invoice_id, save_result, saves, edits,
              edit_result, deleting>>

extVars == <<applyVars, docVars, llmVars, batchVars, raceVars, amountVars,
             catVars, saveVars>>

vars == <<segVars, resVars, extVars>>

\* For each group, everything outside it.
notApplyVars == <<segVars, resVars, docVars, llmVars, batchVars, raceVars,
                  amountVars, catVars, saveVars>>

notDocVars == <<segVars, resVars, applyVars, llmVars, batchVars, raceVars,
                amountVars, catVars, saveVars>>

notLlmVars == <<segVars, resVars, applyVars, docVars, batchVars, raceVars,
                amountVars, catVars, saveVars>>

notBatchVars == <<segVars, resVars, applyVars, docVars, llmVars, raceVars,
                  amountVars, catVars, saveVars>>

notRaceVars == <<segVars, resVars, applyVars, docVars, llmVars, batchVars,
                 amountVars, catVars, saveVars>>

notAmountVars == <<segVars, resVars, applyVars, docVars, llmVars, batchVars,
                   raceVars, catVars, saveVars>>

notCatVars == <<segVars, resVars, applyVars, docVars, llmVars, batchVars,
                raceVars, amountVars, saveVars>>

notSaveVars == <<segVars, resVars, applyVars, docVars, llmVars, batchVars,
                 raceVars, amountVars, catVars>>

\* For each later group, the other later groups.
extNotApplyVars == <<docVars, llmVars, batchVars, raceVars, amountVars,
                     catVars, saveVars>>

extNotDocVars == <<applyVars, llmVars, batchVars, raceVars, amountVars,
                   catVars, saveVars>>

extNotLlmVars == <<applyVars, docVars, batchVars, raceVars, amountVars,
                   catVars, saveVars>>

extNotBatchVars == <<applyVars, docVars, llmVars, raceVars, amountVars,
                     catVars, saveVars>>

extNotRaceVars == <<applyVars, docVars, llmVars, batchVars, amountVars,
                    catVars, saveVars>>

extNotAmountVars == <<applyVars, docVars, llmVars, batchVars, raceVars,
                      catVars, saveVars>>

extNotCatVars == <<applyVars, docVars, llmVars, batchVars, raceVars,
                   amountVars, saveVars>>

extNotSaveVars == <<applyVars, docVars, llmVars, batchVars, raceVars,
                    amountVars, catVars>>

\* The state of each group while its stage is not running.
ApplyIdle ==
    /\ text = <<>>
    /\ template = <<>>
    /\ by_template = [raised |-> "pending"]
    /\ by_stored = [raised |-> "pending"]

DocIdle ==
    /\ extracted_text = <<>>
    /\ doc_pc = "idle"
    /\ doc_error = "none"
    /\ vendor_context = <<>>
    /\ extracted_inv_data = <<>>
    /\ extracted_li_data = <<>>
    /\ inv_df = <<>>
    /\ idx = 0
    /\ line_items = <<>>
    /\ category_calls = <<>>
    /\ doc_result = <<>>

LlmIdle ==
    /\ api_key_set = FALSE
    /\ service = <<>>
    /\ llm_pc = "idle"
    /\ attempt = 0
    /\ requests = <<>>
    /\ waits = <<>>
    /\ llm_result = [kind |-> "none"]

BatchIdle ==
    /\ driver = "none"
    /\ documents = <<>>
    /\ batch_idx = 0
    /\ processed_data = <<>>
    /\ seen_invoices = {}
    /\ batch_pc = "idle"
    /\ batch_error = "none"
    /\ file_result = <<>>

RaceIdle ==
    /\ running = 0
    /\ parked = <<>>

AmountIdle ==
    /\ amount_str = <<>>
    /\ amount = [kind |-> "pending"]

CatIdle ==
    /\ raw_description = <<>>
    /\ store_reachable = TRUE
    /\ item_lookup_map = <<>>
    /\ categories = {}
    /\ cat_pc = "idle"
    /\ cleaned_description = <<>>
    /\ existing_categories = {}
    /\ predicted_category = <<>>
    /\ cat_result = <<>>

SaveIdle ==
    /\ invoices = <<>>
    /\ db_line_items = <<>>
    /\ stored_before = [invoices |-> <<>>, line_items |-> <<>>]
    /\ save_pc = "idle"
    /\ save_inv_df = <<>>
    /\ save_li_df = <<>>
    /\ new_invoice_id = 0
    /\ save_result = [success |-> FALSE, invoice_id |-> 0]
    /\ saves = 0
    /\ edits = 0
    /\ edit_result = [success |-> FALSE, message |-> "none", error |-> "none"]
    /\ deleting = 0

ExtNotApplyIdle ==
    /\ DocIdle
    /\ LlmIdle
    /\ BatchIdle
    /\ RaceIdle
    /\ AmountIdle
    /\ CatIdle
    /\ SaveIdle

ExtNotDocIdle ==
    /\ ApplyIdle
    /\ LlmIdle
    /\ BatchIdle
    /\ RaceIdle
    /\ AmountIdle
    /\ CatIdle
    /\ SaveIdle

ExtNotLlmIdle ==
    /\ ApplyIdle
    /\ DocIdle
    /\ BatchIdle
    /\ RaceIdle
    /\ AmountIdle
    /\ CatIdle
    /\ SaveIdle

ExtNotBatchIdle ==
    /\ ApplyIdle
    /\ DocIdle
    /\ LlmIdle
    /\ RaceIdle
    /\ AmountIdle
    /\ CatIdle
    /\ SaveIdle

ExtNotRaceIdle ==
    /\ ApplyIdle
    /\ DocIdle
    /\ LlmIdle
    /\ BatchIdle
    /\ AmountIdle
    /\ CatIdle
    /\ SaveIdle

ExtNotAmountIdle ==
    /\ ApplyIdle
    /\ DocIdle
    /\ LlmIdle
    /\ BatchIdle
    /\ RaceIdle
    /\ CatIdle
    /\ SaveIdle

ExtNotCatIdle ==
    /\ ApplyIdle
    /\ DocIdle
    /\ LlmIdle
    /\ BatchIdle
    /\ RaceIdle
    /\ AmountIdle
    /\ SaveIdle

ExtNotSaveIdle ==
    /\ ApplyIdle
    /\ DocIdle
    /\ LlmIdle
    /\ BatchIdle
    /\ RaceIdle
    /\ AmountIdle
    /\ CatIdle

ExtIdle ==
    /\ ApplyIdle
    /\ DocIdle
    /\ LlmIdle
    /\ BatchIdle
    /\ RaceIdle
    /\ AmountIdle
    /\ CatIdle
    /\ SaveIdle

-----------------------------------------------------------------------------
(* Bounds of the model *)

\* Pages of the PDF handed to the detector
MaxPages == 5

\* Groups in a tuple handed to the validation
MaxGroups == 2

\* Indices in one group of such a tuple
MaxGroupLen == 2

\* Page indices a tuple of groups holds in all
MaxIndices == 3

\* Fields in which a candidate template differs from a valid one
MaxVaried == 2

\* Fields in which a template to be stored differs from the sample template
MaxAltered == 2

-----------------------------------------------------------------------------
(* Generic helpers *)

Range(s) == {s[k] : k \in DOMAIN s}

SeqsUpTo(S, n) == UNION {[1..m -> S] : m \in 0..n}

RECURSIVE Flatten(_)
Flatten(ss) == IF ss = <<>> THEN <<>> ELSE Head(ss) \o Flatten(Tail(ss))

Last(s) == s[Len(s)]

-----------------------------------------------------------------------------
(* Text values: a Python str is the sequence of its characters *)

\* Python None. Its single element is not a character, so it equals no str.
PyNone == <<"<None>">>

\* bool(v) of a str-or-None value
Truthy(v) == v # PyNone /\ v # <<>>

UpperChars == <<"A", "B", "C", "D", "E", "F", "G", "H", "I", "J", "K", "L", "M",
                "N", "O", "P", "Q", "R", "S", "T", "U", "V", "W", "X", "Y", "Z">>

LowerChars == <<"a", "b", "c", "d", "e", "f", "g", "h", "i", "j", "k", "l", "m",
                "n", "o", "p", "q", "r", "s", "t", "u", "v", "w", "x", "y", "z">>

DigitChars == {"0", "1", "2", "3", "4", "5", "6", "7", "8", "9"}

\* The characters str.strip(), str.split() and the pattern \s take for
\* whitespace (str.isspace()): the six ASCII ones, the four separators
\* 0x1c-0x1f, next line, no-break space and the Unicode spaces. Characters
\* without an escape are written by name.
SpaceChars ==
    {" ", "\t", "\n", "\r", "\f", "<vt>", "<fs>", "<gs>", "<rs>", "<us>",
     "<nel>", "<nbsp>", "<u1680>", "<u2000>", "<u2001>", "<u2002>", "<u2003>",
     "<u2004>", "<u2005>", "<u2006>", "<u2007>", "<u2008>", "<u2009>",
     "<u200a>", "<u2028>", "<u2029>", "<u202f>", "<u205f>", "<u3000>"}

LowerChar(c) ==
    IF \E k \in DOMAIN UpperChars : UpperChars[k] = c
    THEN LowerChars[CHOOSE k \in DOMAIN UpperChars : UpperChars[k] = c]
    ELSE c

\* str.lower()
Lower(s) == [k \in DOMAIN s |-> LowerChar(s[k])]

\* str.strip()
RECURSIVE LStrip(_)
LStrip(s) ==
    IF s # <<>> /\ Head(s) \in SpaceChars THEN LStrip(Tail(s)) ELSE s

RECURSIVE RStrip(_)
RStrip(s) ==
    IF s # <<>> /\ Last(s) \in SpaceChars
    THEN RStrip(SubSeq(s, 1, Len(s) - 1))
    ELSE s

Strip(s) == RStrip(LStrip(s))

\* re.sub(r'\D', '', s)
DigitsOf(s) == SelectSeq(s, LAMBDA c : c \in DigitChars)

\* _normalize_name: re.sub(r'[^a-z0-9]+', '', name.lower().strip())
NormalizeName(name) ==
    IF ~Truthy(name) THEN <<>>
    ELSE SelectSeq(Strip(Lower(name)),
                   LAMBDA c : c \in Range(LowerChars) \cup DigitChars)

-----------------------------------------------------------------------------
(* Vendor registry: src/src/storage/database.py *)

\* A vendor document. A key that create_vendor drops is held as PyNone.
VendorFields == {"name", "contact_email", "phone_number", "address", "website"}

\* The pattern "^" + re.escape(value) + "$" with re.IGNORECASE matches the
\* stored text: the text is value up to letter case, or value followed by
\* one newline, before which "$" matches as well.
MatchesExactly(stored, value) ==
    \/ Lower(stored) = Lower(value)
    \/ Lower(stored) = Lower(value) \o <<"\n">>

\* get_vendor_by_*: find_one({field: re.compile("^" + re.escape(value) + "$",
\* re.IGNORECASE)}): the first document, in insertion order, whose field is a
\* string the pattern matches; 0 when there is none.
GetVendorBy(field, value, vs) ==
    IF ~Truthy(value) THEN 0
    ELSE LET hits == {k \in DOMAIN vs :
                        vs[k][field] # PyNone /\ MatchesExactly(vs[k][field], value)}
         IN IF hits = {} THEN 0
            ELSE CHOOSE k \in hits : \A h \in hits : k <= h

\* Plausible slip: the insert is guarded by the vendor's name, and the id of
\* the record already there is returned.
InsertOneUnlessNamed(vs, doc) ==
    IF \E k \in DOMAIN vs : vs[k].name = doc.name
    THEN [collection |-> vs,
          inserted_id |-> CHOOSE k \in DOMAIN vs : vs[k].name = doc.name]
    ELSE [collection |-> Append(vs, doc), inserted_id |-> Len(vs) + 1]

\* db[COL_VENDORS].insert_one(doc) of create_vendor (line 141): the document
\* is appended under a fresh id, whatever the collection holds.
InsertOne(vs, doc) ==
    [collection |-> Append(vs, doc), inserted_id |-> Len(vs) + 1]

\* An id of the model is a number: a positive one is the place of a stored
\* document, 0 is None, a negative one is an ObjectId no document has.
\* InvalidId is a string ObjectId() rejects (database.py lines 55-59,
\* 211-215).
InvalidId == -100

\* get_vendor_name_by_id (database.py 208-223): None for a falsy id and for
\* an id ObjectId() rejects; else the name of the document found, None when
\* there is none.
GetVendorNameById(id, vs) ==
    IF id = 0 \/ id = InvalidId THEN PyNone
    ELSE IF id \in DOMAIN vs THEN vs[id].name
    ELSE PyNone

\* find_vendor_name_by_id (vendor_identifier.py 908-922): None for a falsy
\* id; a falsy name, the empty string, is returned as None.
FindVendorNameById(id, vs) ==
    IF id = 0 THEN PyNone
    ELSE IF Truthy(GetVendorNameById(id, vs)) THEN GetVendorNameById(id, vs)
    ELSE PyNone

\* get_vendor_regex_patterns: the stored list, or [] when there is none.
GetVendorRegexPatterns(id, ts) ==
    IF id = 0 THEN <<>>
    ELSE IF id \in DOMAIN ts THEN ts[id]
    ELSE <<>>

\* Plausible slip: the collection is rewritten to hold the one template.
ReplaceCollection(ts, id, patterns) == [k \in {id} |-> patterns]

\* update_one({"vendor_id": id}, {"$set": ...}, upsert=True) of
\* save_vendor_regex_template (lines 79-89): the template of id is set, every
\* other template stays.
UpdateOneUpsert(ts, id, patterns) ==
    [k \in DOMAIN ts \cup {id} |-> IF k = id THEN patterns ELSE ts[k]]

\* create_vendor, lines 127-137: the document inserted for vendor_master_data.
NewVendorDoc(vendor_data) ==
    [name          |-> vendor_data.vendor_name,
     contact_email |-> vendor_data.vendor_email_id,
     phone_number  |-> vendor_data.vendor_phone_number,
     address       |-> vendor_data.vendor_physical_address,
     website       |-> vendor_data.vendor_website]

-----------------------------------------------------------------------------
(* search_vendor_by_signals and its find_vendor_by_* helpers *)

SignalKey(kind) ==
    CASE kind = "website" -> "website"
      [] kind = "email"   -> "vendor_email_id"
      [] kind = "phone"   -> "vendor_phone_number"
      [] kind = "address" -> "vendor_physical_address"
      [] kind = "name"    -> "vendor_name"

RegistryField(kind) ==
    CASE kind = "website" -> "website"
      [] kind = "email"   -> "contact_email"
      [] kind = "phone"   -> "phone_number"
      [] kind = "address" -> "address"
      [] kind = "name"    -> "name"

\* The value find_vendor_by_<kind> hands to get_vendor_by_<kind> for a truthy
\* signal; a value that is not truthy means no query is made.
\*   website, email, address: extracted.strip()
\*   phone: the digits only, and only when there are at least 7
\*   name: _normalize_name(name), and only when it has at least 3 characters
QueryValue(kind, value) ==
    CASE kind = "phone" ->
            IF Len(DigitsOf(value)) < 7 THEN <<>> ELSE DigitsOf(value)
      [] kind = "name" ->
            IF Len(NormalizeName(value)) >= 3 THEN NormalizeName(value) ELSE <<>>
      [] OTHER -> Strip(value)

\* Plausible slip: the name lookup is tried before the contact signals.
SignalOrderNameFirst == <<"name", "website", "email", "phone", "address">>

\* Lines 812-842: the order in which the signals are tried.
SignalOrder == <<"website", "email", "phone", "address", "name">>

\* The value a signal is looked up with; empty when the signal is absent
\* or unusable, and then no lookup is made for it (the guards of lines
\* 812-842 and of the find_vendor_by_* helpers).
SearchQuery(kind, sig) ==
    IF Truthy(sig[SignalKey(kind)])
    THEN QueryValue(kind, sig[SignalKey(kind)])
    ELSE <<>>

\* The position in SignalOrder of the next lookup search_vendor_by_signals
\* makes after the lookups in done, all of which found nothing; 0 when none
\* is left and the function returns None.
NextLookup(sig, done) ==
    LET from == IF done = <<>> THEN 1
                ELSE 1 + CHOOSE k \in DOMAIN SignalOrder :
                                SignalOrder[k] = done[Len(done)].kind
        left == {k \in from..Len(SignalOrder) :
                    Truthy(SearchQuery(SignalOrder[k], sig))}
    IN IF left = {} THEN 0
       ELSE CHOOSE k \in left : \A other \in left : k <= other

-----------------------------------------------------------------------------
(* Sample documents and registry contents *)

VendorAcme ==
    [name          |-> <<"A", "c", "m", "e", " ", "C", "o">>,
     contact_email |-> <<"a", "p", "@", "a", "c", "m", "e", ".", "c", "o">>,
     phone_number  |-> <<"5", "5", "5", "1", "2", "3", "4">>,
     address       |-> <<"1", " ", "E", "l", "m", " ", "S", "t">>,
     website       |-> <<"a", "c", "m", "e", ".", "c", "o">>]

VendorBolt ==
    [name          |-> <<"B", "o", "l", "t">>,
     contact_email |-> PyNone,
     phone_number  |-> <<"5", "5", "5", "-", "9", "8", "7", "6">>,
     address       |-> PyNone,
     website       |-> <<"b", "o", "l", "t", ".", "i", "o">>]

RegistrySamples == {<<>>, <<VendorAcme, VendorBolt>>, <<VendorBolt, VendorAcme>>}

WebsiteSignals == {PyNone, <<"A", "C", "M", "E", ".", "c", "o">>, <<"b", "o", "l", "t", ".", "i", "o">>, <<"r", "u", "s", "t", ".", "i", "o">>}

EmailSignals == {PyNone, <<"A", "P", "@", "a", "c", "m", "e", ".", "c", "o">>, <<"h", "i", "@", "r", "u", "s", "t", ".", "i", "o">>}

PhoneSignals == {PyNone, <<"5", "5", "5", "-", "1", "2", "3", "4">>, <<"5", "5", "5", "-", "9", "8", "7", "6">>, <<"5", "5", "5", "-", "9", "8">>}

AddressSignals == {PyNone, <<"1", " ", "e", "l", "m", " ", "s", "t", " ">>, <<"9", " ", "O", "a", "k", " ", "R", "d">>}

NameSignals == {PyNone, <<"B", "o", "l", "t">>, <<"A", "c", "m", "e", " ", "C", "o">>, <<"B", "o">>}

SignalSamples ==
    [website                 : WebsiteSignals,
     vendor_email_id         : EmailSignals,
     vendor_phone_number     : PhoneSignals,
     vendor_physical_address : AddressSignals,
     vendor_name             : NameSignals]

\* A stored template: the list of 11 patterns.
StoredTemplate == [k \in 1..11 |-> <<"(", "a", ")">>]

-----------------------------------------------------------------------------
(* Language-model output. call_llm_api either raises or returns the parsed  *)
(* JSON value; a JSON object is [isdict |-> TRUE, d |-> key -> value], a    *)
(* JSON array [islist |-> TRUE, l |-> sequence], a string its characters,   *)
(* null PyNone.                                                             *)

Dict(f) == [isdict |-> TRUE, d |-> f]

NotADict == [isdict |-> FALSE]

Restrict(f, S) == [k \in S |-> f[k]]

\* dict.get(k, default)
GetOr(f, k, default) == IF k \in DOMAIN f THEN f[k] ELSE default

\* _coerce_none_values on a string-or-None leaf
CoerceNone(v) ==
    IF v # PyNone /\ Strip(v) \in {<<"N", "o", "n", "e">>, <<"n", "u", "l", "l">>, <<>>} THEN PyNone ELSE v

-----------------------------------------------------------------------------
(* llm_phase1_extract: validation of the parsed phase-1 object *)

Phase1RootKeys == {"invoice_details", "line_items", "vendor_master_data"}

Phase1InvoiceKeys == {"invoice_number", "invoice_date", "invoice_total_amount"}

Phase1VendorKeys ==
    {"vendor_name", "vendor_email_id", "vendor_phone_number",
     "vendor_physical_address", "vendor_website"}

Phase1ItemKeys == {"description", "line_total"}

\* Lines 522-541: vendor_master_data after coercion, with the optional keys
\* that are absent set to None.
FilledVendor(d) ==
    [k \in Phase1VendorKeys |-> IF k \in DOMAIN d THEN CoerceNone(d[k]) ELSE PyNone]

\* Lines 496-566. The result is [ok, error, vendor]: vendor is the
\* vendor_master_data of the returned object.
Phase1Validate(resp) ==
    LET fail(e) == [ok |-> FALSE, error |-> e, vendor |-> PyNone] IN
    IF ~resp.is_dict THEN fail("Phase1ParseError")
    ELSE IF ~(Phase1RootKeys \subseteq DOMAIN resp.root)
    THEN fail("Phase1ValidationError")
    ELSE LET invoice == resp.root["invoice_details"]
             vendor  == resp.root["vendor_master_data"]
             items   == resp.root["line_items"]
         IN IF ~invoice.isdict THEN fail("Phase1ValidationError")
            ELSE IF ~(Phase1InvoiceKeys \subseteq DOMAIN invoice.d)
            THEN fail("Phase1ValidationError")
            ELSE IF ~vendor.isdict THEN fail("Phase1ValidationError")
            ELSE IF ~("vendor_name" \in DOMAIN vendor.d)
            THEN fail("Phase1ValidationError")
            ELSE IF ~items.islist THEN fail("Phase1ValidationError")
            ELSE IF \E n \in DOMAIN items.l :
                       \/ ~items.l[n].isdict
                       \/ ~(Phase1ItemKeys \subseteq DOMAIN items.l[n].d)
            THEN fail("Phase1ValidationError")
            ELSE [ok |-> TRUE, error |-> "none", vendor |-> FilledVendor(vendor.d)]

-----------------------------------------------------------------------------
(* llm_phase2_generate_regex: validation of the candidate template *)

\* _count_capture_groups: len(re.findall(r'(?<!\\)\((?!\?:)', pattern)), the
\* number of "(" neither preceded by a backslash nor followed by "?:".
CountCaptureGroups(pattern) ==
    IF pattern = PyNone THEN 0
    ELSE Cardinality({k \in DOMAIN pattern :
            /\ pattern[k] = "("
            /\ ~(k > 1 /\ pattern[k - 1] = "\\")
            /\ ~(k + 2 <= Len(pattern) /\ pattern[k + 1] = "?" /\ pattern[k + 2] = ":")})

Phase2RootKeys == {"invoice_level", "line_item_level"}

\* required_invoice_keys, line 622
RequiredInvoiceKeys ==
    {"invoice_number", "invoice_date", "invoice_total_amount", "order_date"}

\* Plausible slip: invoice_date left out of the strict fields.
StrictInvoiceFieldsNoDate == {"invoice_number", "invoice_total_amount"}

\* strict_invoice_fields, line 628
StrictInvoiceFields == {"invoice_number", "invoice_date", "invoice_total_amount"}

\* required_line_item_keys, lines 666-674
RequiredLineItemKeys ==
    {"line_item_block_start", "line_item_block_end", "description", "quantity",
     "unit", "unit_price", "line_total"}

\* Plausible slip: description left out of the strict fields.
StrictLineFieldsNoDescription ==
    {"line_item_block_start", "line_item_block_end", "quantity", "unit_price",
     "line_total"}

\* strict_line_fields, lines 680-687
StrictLineFields ==
    {"line_item_block_start", "line_item_block_end", "description", "quantity",
     "unit_price", "line_total"}

\* marker_fields, line 690
MarkerFields == {"line_item_block_start", "line_item_block_end"}

IsBlank(v) == Strip(v) = <<>>

\* The loop body of lines 633-651 and 695-714 for key k with value v: what it
\* appends to the "empty" list and to the "bad group" list.
FieldIsEmpty(k, v, strict) ==
    \/ v = PyNone
    \/ (k \in strict /\ IsBlank(v))

\* Plausible slip: the strict rule of the prompt (exactly one group) is kept.
FieldHasBadGroupsExactlyOne(k, v, exempt) ==
    /\ v # PyNone
    /\ ~IsBlank(v)
    /\ k \notin exempt
    /\ CountCaptureGroups(v) # 1

FieldHasBadGroups(k, v, exempt) ==
    /\ v # PyNone
    /\ ~IsBlank(v)
    /\ k \notin exempt
    /\ CountCaptureGroups(v) < 1

\* Lines 604-723. The result is [ok, error, detail].
Phase2Validate(resp) ==
    LET fail(e, why) == [ok |-> FALSE, error |-> e, detail |-> why] IN
    IF ~resp.is_dict THEN fail("Phase2ParseError", "not_dict")
    ELSE IF ~(Phase2RootKeys \subseteq DOMAIN resp.root)
    THEN fail("Phase2ValidationError", "missing_root")
    ELSE LET invoice   == resp.root["invoice_level"]
             line_item == resp.root["line_item_level"]
         IN IF ~invoice.isdict
            THEN fail("Phase2ValidationError", "invoice_not_dict")
            ELSE IF ~(RequiredInvoiceKeys \subseteq DOMAIN invoice.d)
            THEN fail("Phase2ValidationError", "invoice_missing_keys")
            ELSE IF \E k \in RequiredInvoiceKeys :
                       FieldIsEmpty(k, invoice.d[k], StrictInvoiceFields)
            THEN fail("Phase2ValidationError", "invoice_empty")
            ELSE IF \E k \in RequiredInvoiceKeys :
                       FieldHasBadGroups(k, invoice.d[k], {})
            THEN fail("Phase2ValidationError", "invoice_groups")
            ELSE IF ~line_item.isdict
            THEN fail("Phase2ValidationError", "line_item_not_dict")
            ELSE IF ~(RequiredLineItemKeys \subseteq DOMAIN line_item.d)
            THEN fail("Phase2ValidationError", "line_item_missing_keys")
            ELSE IF \E k \in RequiredLineItemKeys :
                       FieldIsEmpty(k, line_item.d[k], StrictLineFields)
            THEN fail("Phase2ValidationError", "line_item_empty")
            ELSE IF \E k \in RequiredLineItemKeys :
                       FieldHasBadGroups(k, line_item.d[k], MarkerFields)
            THEN fail("Phase2ValidationError", "line_item_groups")
            ELSE [ok |-> TRUE, error |-> "none", detail |-> "valid"]

\* Plausible slip: description is listed before quantity.
FlattenedPatternsDescriptionFirst(new_regexes_root) ==
    LET inv_data == IF "invoice_level" \in DOMAIN new_regexes_root
                    THEN new_regexes_root["invoice_level"].d ELSE <<>>
        li_data  == IF "line_item_level" \in DOMAIN new_regexes_root
                    THEN new_regexes_root["line_item_level"].d ELSE <<>>
    IN << GetOr(inv_data, "invoice_number", <<>>),
          GetOr(inv_data, "invoice_date", <<>>),
          GetOr(inv_data, "invoice_total_amount", <<>>),
          GetOr(inv_data, "order_date", <<>>),
          GetOr(li_data, "line_item_block_start", <<>>),
          GetOr(li_data, "line_item_block_end", <<>>),
          GetOr(li_data, "description", <<>>),
          GetOr(li_data, "quantity", <<>>),
          GetOr(li_data, "unit", <<>>),
          GetOr(li_data, "unit_price", <<>>),
          GetOr(li_data, "line_total", <<>>) >>

\* save_vendor_regex_template, lines 61-77: the stored list of 11 patterns.
FlattenedPatterns(new_regexes_root) ==
    LET inv_data == IF "invoice_level" \in DOMAIN new_regexes_root
                    THEN new_regexes_root["invoice_level"].d ELSE <<>>
        li_data  == IF "line_item_level" \in DOMAIN new_regexes_root
                    THEN new_regexes_root["line_item_level"].d ELSE <<>>
    IN << GetOr(inv_data, "invoice_number", <<>>),
          GetOr(inv_data, "invoice_date", <<>>),
          GetOr(inv_data, "invoice_total_amount", <<>>),
          GetOr(inv_data, "order_date", <<>>),
          GetOr(li_data, "line_item_block_start", <<>>),
          GetOr(li_data, "line_item_block_end", <<>>),
          GetOr(li_data, "quantity", <<>>),
          GetOr(li_data, "description", <<>>),
          GetOr(li_data, "unit", <<>>),
          GetOr(li_data, "unit_price", <<>>),
          GetOr(li_data, "line_total", <<>>) >>

\* save_vendor_regex_template (database.py 33-89): nothing is stored for a
\* falsy id or falsy regexes (lines 53-54), nor for an id ObjectId() rejects
\* (lines 56-60, a message is printed); else the flattened list is upserted.
SaveVendorRegexTemplate(ts, id, new_regexes_root) ==
    IF id = 0 \/ new_regexes_root = <<>> \/ id = InvalidId THEN ts
    ELSE UpdateOneUpsert(ts, id, FlattenedPatterns(new_regexes_root))

-----------------------------------------------------------------------------
(* Sample language-model outputs *)

LlmRaises == [call |-> "raises", is_dict |-> FALSE, root |-> <<>>]

LlmNotDict == [call |-> "returns", is_dict |-> FALSE, root |-> <<>>]

LlmDict(root) == [call |-> "returns", is_dict |-> TRUE, root |-> root]

NoLlmResponse == [call |-> "none", is_dict |-> FALSE, root |-> <<>>]

GoodInvoiceDetails ==
    Dict([invoice_number       |-> <<"7", "7">>,
          invoice_date         |-> <<"2", "0", "2", "4", "-", "0", "1", "-", "0", "2">>,
          invoice_total_amount |-> <<"9", ".", "5", "0">>,
          order_date           |-> PyNone])

GoodItem == Dict([description |-> <<"N", "a", "i", "l", "s">>, line_total |-> <<"9", ".", "5", "0">>])

GoodLineItems == [islist |-> TRUE, l |-> <<GoodItem>>]

VendorRust ==
    [vendor_name             |-> <<"R", "u", "s", "t">>,
     vendor_email_id         |-> <<"h", "i", "@", "r", "u", "s", "t", ".", "i", "o">>,
     vendor_phone_number     |-> <<"5", "5", "5", "-", "9", "8", "7", "6">>,
     vendor_physical_address |-> <<"9", " ", "O", "a", "k", " ", "R", "d">>,
     vendor_website          |-> <<"r", "u", "s", "t", ".", "i", "o">>]

VendorNameOnly == [vendor_name |-> <<"A", "c", "m", "e", " ", "C", "o">>]

VendorNoneName ==
    [vendor_name             |-> <<"N", "o", "n", "e">>,
     vendor_email_id         |-> <<>>,
     vendor_phone_number     |-> <<"n", "u", "l", "l">>,
     vendor_physical_address |-> PyNone,
     vendor_website          |-> <<"r", "u", "s", "t", ".", "i", "o">>]

Phase1Good(vendor_data) ==
    LlmDict([invoice_details    |-> GoodInvoiceDetails,
             line_items         |-> GoodLineItems,
             vendor_master_data |-> Dict(vendor_data)])

Phase1Samples ==
    {LlmRaises, LlmNotDict,
     Phase1Good(VendorRust), Phase1Good(VendorNameOnly), Phase1Good(VendorNoneName),
     \* vendor_master_data lacks vendor_name
     Phase1Good([vendor_website |-> <<"r", "u", "s", "t", ".", "i", "o">>]),
     \* a root key is missing
     LlmDict([invoice_details |-> GoodInvoiceDetails, line_items |-> GoodLineItems]),
     \* vendor_master_data is not an object
     LlmDict([invoice_details    |-> GoodInvoiceDetails,
              line_items         |-> GoodLineItems,
              vendor_master_data |-> NotADict]),
     \* invoice_details lacks invoice_date
     LlmDict([invoice_details    |-> Dict([invoice_number       |-> <<"7", "7">>,
                                           invoice_total_amount |-> <<"9", ".", "5", "0">>]),
              line_items         |-> GoodLineItems,
              vendor_master_data |-> Dict(VendorRust)]),
     \* line_items is not a list
     LlmDict([invoice_details    |-> GoodInvoiceDetails,
              line_items         |-> [islist |-> FALSE],
              vendor_master_data |-> Dict(VendorRust)]),
     \* an item lacks line_total
     LlmDict([invoice_details    |-> GoodInvoiceDetails,
              line_items         |-> [islist |-> TRUE,
                                      l |-> <<GoodItem, Dict([description |-> <<"N", "a", "i", "l", "s">>])>>],
              vendor_master_data |-> Dict(VendorRust)])}

TemplateKeys == RequiredInvoiceKeys \cup RequiredLineItemKeys

\* A key the candidate does not have.
Missing == <<"<missing>">>

\* Patterns a candidate may give a field: empty, blank, no group, one group,
\* two groups, a non-capturing group only, escaped parentheses, and JSON null.
PatternSamples ==
    {<<>>, <<" ">>, <<"a">>, <<"(", "a", ")">>, <<"(", "a", ")", "(", "b", ")">>, <<"(", "?", ":", "a", ")">>, <<"\\", "(", "a", "\\", ")">>, PyNone}

BaseCandidate == [k \in TemplateKeys |-> <<"(", "a", ")">>]

\* The phase-2 object for a candidate given as key -> pattern (or Missing).
Phase2Object(c) ==
    LlmDict([invoice_level   |->
                Dict(Restrict(c, {k \in RequiredInvoiceKeys : c[k] # Missing})),
             line_item_level |->
                Dict(Restrict(c, {k \in RequiredLineItemKeys : c[k] # Missing}))])

\* The sets of at most n fields in which a candidate may differ from
\* BaseCandidate, and the candidate that holds f[k] in each field k of f.
VariedKeySets(n) == {X \in SUBSET TemplateKeys : Cardinality(X) <= n}

CandidateWith(f) ==
    [k \in TemplateKeys |-> IF k \in DOMAIN f THEN f[k] ELSE BaseCandidate[k]]

Phase2Malformed ==
    {LlmRaises, LlmNotDict,
     LlmDict([invoice_level |-> Dict(Restrict(BaseCandidate, RequiredInvoiceKeys))]),
     LlmDict([invoice_level   |-> NotADict,
              line_item_level |-> Dict(Restrict(BaseCandidate, RequiredLineItemKeys))]),
     LlmDict([invoice_level   |-> Dict(Restrict(BaseCandidate, RequiredInvoiceKeys)),
              line_item_level |-> NotADict])}

\* The few phase-2 outputs used where the resolver as a whole is explored.
Phase2Samples ==
    {Phase2Object(BaseCandidate),
     Phase2Object([BaseCandidate EXCEPT !["unit"] = <<>>, !["order_date"] = <<>>]),
     Phase2Object([BaseCandidate EXCEPT !["invoice_date"] = <<" ">>]),
     Phase2Object([BaseCandidate EXCEPT !["description"] = <<"a">>])}
        \cup Phase2Malformed

-----------------------------------------------------------------------------
(* identify_vendor_and_get_regex *)

NoResult ==
    [vendor_id |-> 0, vendor_name |-> PyNone, regex |-> <<>>,
     created |-> FALSE, matched_by |-> "none"]

\* What a call of the registry does: it answers, or it raises (the server
\* cannot be reached).
DbOutcomes == {"ok", "fails"}

\* Lines 1108-1118 and search_vendor_by_signals, one registry lookup at a
\* time: the next signal that has a usable value is looked up in the
\* registry as it is now. A hit ends the search and CASE A is entered; a
\* miss with no signal left, or no usable signal at all, returns None and
\* CASE B is entered. The find_one of a lookup is in no try block: when it
\* raises, the exception leaves the search and the call.
ResSearch ==
    /\ res_pc = "start"
    /\ LET k == NextLookup(signals, lookups) IN
       IF k = 0
       THEN /\ vendor_id' = 0
            /\ matched_by' = "none"
            /\ res_pc' = "phase1"
            /\ UNCHANGED <<lookups, res_error>>
       ELSE \E outcome \in DbOutcomes :
            LET kind == SignalOrder[k]
                vid  == IF outcome = "fails" THEN 0
                        ELSE GetVendorBy(RegistryField(kind),
                                         SearchQuery(kind, signals), vendors)
                done == Append(lookups, [kind |-> kind, vid |-> vid,
                                         raised |-> outcome = "fails"])
            IN /\ lookups' = done
               /\ vendor_id' = vid
               /\ matched_by' = IF vid # 0 THEN kind ELSE "none"
               /\ res_pc' = IF outcome = "fails" THEN "error"
                            ELSE IF vid # 0 THEN "found"
                            ELSE IF NextLookup(signals, done) = 0 THEN "phase1"
                            ELSE "start"
               /\ res_error' = IF outcome = "fails" THEN "DBError" ELSE res_error
    /\ UNCHANGED <<vendors, templates, signals, phase1, new_regexes,
                   new_vendor_id, llm_calls, llm_response, result, registry0>>
    /\ UNCHANGED <<segVars, extVars>>

\* Plausible slip (and what the function's docstring describes): a known
\* vendor without a template is sent through derivation.
OnMissingTemplateDerive == "derive"

\* Lines 1134-1136: a known vendor without a template raises ValueError.
OnMissingTemplate == "raise"

\* Lines 1120-1136, CASE A. The two reads of lines 1121 and 1123 are in no
\* try block either; the name is read through find_vendor_name_by_id.
ResFound ==
    /\ res_pc = "found"
    /\ \E outcome \in DbOutcomes :
       LET vendor_name == FindVendorNameById(vendor_id, vendors)
           regex_list  == GetVendorRegexPatterns(vendor_id, templates)
       IN IF outcome = "fails"
          THEN /\ res_pc' = "error"
               /\ res_error' = "DBError"
               /\ UNCHANGED result
          ELSE IF regex_list # <<>>
          THEN /\ result' = [vendor_id |-> vendor_id, vendor_name |-> vendor_name,
                             regex |-> regex_list, created |-> FALSE,
                             matched_by |-> matched_by]
               /\ res_pc' = "done"
               /\ UNCHANGED res_error
          ELSE IF OnMissingTemplate = "raise"
          THEN /\ res_pc' = "error"
               /\ res_error' = "ValueError"
               /\ UNCHANGED result
          ELSE /\ res_pc' = "phase1"
               /\ UNCHANGED <<result, res_error>>
    /\ UNCHANGED <<vendors, templates, signals, lookups, vendor_id, matched_by,
                   phase1, new_regexes, new_vendor_id, llm_calls, llm_response,
                   registry0>>
    /\ UNCHANGED <<segVars, extVars>>

\* Plausible slip: the vendor is created as soon as phase 1 has named it.
CaseBOrderCreateEarly == <<"phase1", "create", "phase2", "save">>

\* Lines 1141-1154: the order of the steps of CASE B.
CaseBOrder == <<"phase1", "phase2", "create", "save">>

StepAfter(step) ==
    LET k == CHOOSE n \in DOMAIN CaseBOrder : CaseBOrder[n] = step IN
    IF k = Len(CaseBOrder) THEN "return" ELSE CaseBOrder[k + 1]

\* Line 1141: llm_phase1_extract(text), with the model's output drawn from S.
Phase1Step(S) ==
    /\ res_pc = "phase1"
    /\ \E resp \in S :
          /\ llm_calls' = llm_calls + 1
          /\ llm_response' = resp
          /\ IF resp.call # "returns"
             THEN /\ res_pc' = "error"
                  /\ res_error' = "LLMError"
                  /\ UNCHANGED phase1
             ELSE LET v == Phase1Validate(resp) IN
                  IF ~v.ok
                  THEN /\ res_pc' = "error"
                       /\ res_error' = v.error
                       /\ UNCHANGED phase1
                  ELSE /\ phase1' = [vendor_master_data |-> v.vendor]
                       /\ res_pc' = StepAfter("phase1")
                       /\ UNCHANGED res_error
    /\ UNCHANGED <<vendors, templates, signals, lookups, vendor_id, matched_by,
                   new_regexes, new_vendor_id, result, registry0>>
    /\ UNCHANGED <<segVars, extVars>>

\* Line 1147: llm_phase2_generate_regex(text, phase1), output drawn from S.
Phase2Step(S) ==
    /\ res_pc = "phase2"
    /\ \E resp \in S :
          /\ llm_calls' = llm_calls + 1
          /\ llm_response' = resp
          /\ IF resp.call # "returns"
             THEN /\ res_pc' = "error"
                  /\ res_error' = "LLMError"
                  /\ UNCHANGED new_regexes
             ELSE LET v == Phase2Validate(resp) IN
                  IF ~v.ok
                  THEN /\ res_pc' = "error"
                       /\ res_error' = v.error
                       /\ UNCHANGED new_regexes
                  ELSE /\ new_regexes' = resp.root
                       /\ res_pc' = StepAfter("phase2")
                       /\ UNCHANGED res_error
    /\ UNCHANGED <<vendors, templates, signals, lookups, vendor_id, matched_by,
                   phase1, new_vendor_id, result, registry0>>
    /\ UNCHANGED <<segVars, extVars>>

ResPhase1 == Phase1Step(Phase1Samples)

ResPhase2 == Phase2Step(Phase2Samples)

\* Line 1150: save_vendor_details(vendor): ValueError without a vendor_name;
\* otherwise create_vendor inserts the document and returns its id, or
\* returns None when the insert raises.
ResCreateVendor ==
    /\ res_pc = "create"
    /\ LET vendor == phase1.vendor_master_data IN
       IF ~Truthy(vendor.vendor_name)
       THEN /\ res_pc' = "error"
            /\ res_error' = "ValueError"
            /\ UNCHANGED <<vendors, new_vendor_id>>
       ELSE \E outcome \in DbOutcomes :
            /\ IF outcome = "ok"
               THEN /\ vendors' = InsertOne(vendors, NewVendorDoc(vendor)).collection
                    /\ new_vendor_id' = InsertOne(vendors, NewVendorDoc(vendor)).inserted_id
               ELSE /\ new_vendor_id' = 0
                    /\ UNCHANGED vendors
            /\ res_pc' = StepAfter("create")
            /\ UNCHANGED res_error
    /\ UNCHANGED <<templates, signals, lookups, vendor_id, matched_by, phase1,
                   new_regexes, llm_calls, llm_response, result, registry0>>
    /\ UNCHANGED <<segVars, extVars>>

\* Lines 1153-1154: save_regex_for_vendor(new_vendor_id, new_regexes), a
\* no-op without a vendor id, otherwise an upsert that may raise.
ResSaveRegex ==
    /\ res_pc = "save"
    /\ IF new_vendor_id = 0
       THEN /\ res_pc' = StepAfter("save")
            /\ UNCHANGED <<templates, res_error>>
       ELSE \E outcome \in DbOutcomes :
            IF outcome = "ok"
            THEN /\ templates' = SaveVendorRegexTemplate(templates, new_vendor_id,
                                      new_regexes)
                 /\ res_pc' = StepAfter("save")
                 /\ UNCHANGED res_error
            ELSE /\ res_pc' = "error"
                 /\ res_error' = "DBError"
                 /\ UNCHANGED templates
    /\ UNCHANGED <<vendors, signals, lookups, vendor_id, matched_by, phase1,
                   new_regexes, new_vendor_id, llm_calls, llm_response, result,
                   registry0>>
    /\ UNCHANGED <<segVars, extVars>>

\* Lines 1151 and 1155-1161: vendor_name is looked up by vendor_id, the local
\* that CASE B entered with as None, and the dict is returned.
ResReturnCreated ==
    /\ res_pc = "return"
    /\ result' = [vendor_id   |-> new_vendor_id,
                  vendor_name |-> FindVendorNameById(vendor_id, vendors),
                  regex       |-> new_regexes,
                  created     |-> TRUE,
                  matched_by  |-> "none"]
    /\ res_pc' = "done"
    /\ UNCHANGED <<vendors, templates, signals, lookups, vendor_id, matched_by,
                   phase1, new_regexes, new_vendor_id, llm_calls, llm_response,
                   res_error, registry0>>
    /\ UNCHANGED <<segVars, extVars>>

NoSignals ==
    [website |-> PyNone, vendor_email_id |-> PyNone, vendor_phone_number |-> PyNone,
     vendor_physical_address |-> PyNone, vendor_name |-> PyNone]

\* The locals of a call of identify_vendor_and_get_regex before its first step.
ResolverLocalsInit ==
    /\ lookups = <<>>
    /\ vendor_id = 0
    /\ matched_by = "none"
    /\ phase1 = [vendor_master_data |-> PyNone]
    /\ new_regexes = <<>>
    /\ new_vendor_id = 0
    /\ llm_calls = 0
    /\ llm_response = NoLlmResponse
    /\ result = NoResult
    /\ res_error = "none"

\* No document is being resolved (the segmenter runs before text extraction).
ResolverIdle ==
    /\ vendors = <<>>
    /\ templates = <<>>
    /\ signals = NoSignals
    /\ res_pc = "idle"
    /\ registry0 = [vendors |-> <<>>, templates |-> <<>>]
    /\ ResolverLocalsInit

-----------------------------------------------------------------------------
(* Segmenter: detect_invoice_page_groups *)

NoId == "none"

IdValues == {"100", "200"}

FoundIds == IdValues \cup {NoId}

\* Plausible slip: the "no id" case is not told apart from a changed id.
StartsNewGroupNoNoneCheck(found_id, tracking) == found_id # tracking

\* CASE 2-4 of the decision logic: a page after the first opens a new group
\* exactly in the else branch (an id, and not the tracked one).
StartsNewGroup(found_id, tracking) ==
    ~(found_id = NoId) /\ ~(found_id = tracking)

\* Plausible slip: the page that opens the new group is not put into it.
NewGroupDropsPage(page) == <<>>

\* CASE 4 B: current_group = [i]
NewGroup(page) == <<page>>

\* One iteration of the page loop (lines 94-150) for page i.
DetectPage ==
    /\ seg_pc = "detect"
    /\ i <= num_pages
    /\ LET found_id == page_ids[i] IN
       IF i = 1
       THEN /\ current_tracking_id' = found_id
            /\ current_group' = Append(current_group, i)
            /\ UNCHANGED grouped_invoices
       ELSE IF StartsNewGroup(found_id, current_tracking_id)
       THEN /\ grouped_invoices' =
                  IF current_group # <<>>
                  THEN Append(grouped_invoices, current_group)
                  ELSE grouped_invoices
            /\ current_group' = NewGroup(i)
            /\ current_tracking_id' = found_id
       ELSE /\ current_group' = Append(current_group, i)
            /\ UNCHANGED <<grouped_invoices, current_tracking_id>>
    /\ i' = i + 1
    /\ UNCHANGED <<page_ids, num_pages, groups, seg_pc, seg_error,
                   source_exists, processed, created, gi, ci>>
    /\ UNCHANGED <<resVars, extVars>>

\* Final cleanup (lines 157-161): the open group is closed and the tuple
\* returned to process_multi_page_pdf.
DetectFinish ==
    /\ seg_pc = "detect"
    /\ i > num_pages
    /\ grouped_invoices' =
           IF current_group # <<>>
           THEN Append(grouped_invoices, current_group)
           ELSE grouped_invoices
    /\ seg_pc' = "validate"
    /\ UNCHANGED <<page_ids, num_pages, i, current_group, current_tracking_id,
                   groups, seg_error, source_exists, processed, created, gi, ci>>
    /\ UNCHANGED <<resVars, extVars>>

-----------------------------------------------------------------------------
(* Segmenter: process_multi_page_pdf (validation) *)

\* Lines 297-299: grp[i+1] = grp[i] + 1 for every adjacent pair.
Consecutive(grp) == \A k \in 1..(Len(grp) - 1) : grp[k + 1] = grp[k] + 1

\* Plausible slip: the covered_pages test is missing.
PageCheckNoOverlap(page_index, covered, n) ==
    IF page_index < 1 \/ page_index > n THEN "range" ELSE "ok"

\* Lines 301-304: the checks made for one page index.
PageCheck(page_index, covered, n) ==
    IF page_index < 1 \/ page_index > n THEN "range"
    ELSE IF page_index \in covered THEN "overlap"
    ELSE "ok"

\* Lines 300-305: the page loop of one group; the result is the first error
\* or "ok".
RECURSIVE CheckPages(_, _, _, _)
CheckPages(grp, k, covered, n) ==
    IF k > Len(grp) THEN "ok"
    ELSE LET r == PageCheck(grp[k], covered, n) IN
         IF r # "ok" THEN r
         ELSE CheckPages(grp, k + 1, covered \cup {grp[k]}, n)

\* Lines 291-306: the group loop; empty groups are skipped, the first
\* violation raises ValueError.
RECURSIVE ValidateFrom(_, _, _, _)
ValidateFrom(gs, k, covered, n) ==
    IF k > Len(gs) THEN "ok"
    ELSE LET grp == gs[k] IN
         IF grp = <<>> THEN ValidateFrom(gs, k + 1, covered, n)
         ELSE IF ~Consecutive(grp) THEN "not_consecutive"
         ELSE LET r == CheckPages(grp, 1, covered, n) IN
              IF r # "ok" THEN r
              ELSE ValidateFrom(gs, k + 1, covered \cup Range(grp), n)

ValidateGroups(gs, n) == ValidateFrom(gs, 1, {}, n)

\* validated_groups: the non-empty groups, in order (line 306, 311).
ValidatedGroups(gs) == SelectSeq(gs, LAMBDA g : g # <<>>)

\* process_multi_page_pdf from the detector's return to the call of
\* split_pdf_by_page_groups (lines 282-314).
Validate ==
    /\ seg_pc = "validate"
    /\ IF grouped_invoices = <<>>
       THEN /\ seg_pc' = "done"
            /\ UNCHANGED <<groups, seg_error>>
       ELSE IF ValidateGroups(grouped_invoices, num_pages) # "ok"
       THEN /\ seg_pc' = "error"
            /\ seg_error' = "ValueError"
            /\ UNCHANGED groups
       ELSE /\ groups' = ValidatedGroups(grouped_invoices)
            /\ seg_pc' = "split"
            /\ UNCHANGED seg_error
    /\ UNCHANGED <<page_ids, num_pages, i, current_group, current_tracking_id,
                   grouped_invoices, source_exists, processed, created, gi, ci>>
    /\ UNCHANGED <<resVars, extVars>>

-----------------------------------------------------------------------------
(* Segmenter: split_pdf_by_page_groups *)

\* Lines 219-224: "{base}-page{start}.pdf" for a single-page group,
\* "{base}-page{start}-{end}.pdf" otherwise; the name is kept as its numbers.
NewFilename(group) ==
    IF group[1] = Last(group) THEN <<group[1]>> ELSE <<group[1], Last(group)>>

\* Lines 226-227
TempPath(group) == [name |-> NewFilename(group), tmp |-> TRUE]

FinalPath(group) == [name |-> NewFilename(group), tmp |-> FALSE]

WriteOutcomes == {"ok", "open_fails", "write_fails"}

IoOutcomes == {"ok", "fails"}

\* Lines 214-244: one group's pages are written to the temporary file. open()
\* may fail before the file exists; writer.write() may fail after open() has
\* created it.
SplitWrite ==
    /\ seg_pc = "split"
    /\ gi <= Len(groups)
    /\ IF groups[gi] = <<>>
       THEN /\ gi' = gi + 1
            /\ UNCHANGED <<seg_pc, processed>>
       ELSE \E outcome \in WriteOutcomes :
            /\ processed' = IF outcome = "open_fails" THEN processed
                            ELSE processed \cup {TempPath(groups[gi])}
            /\ seg_pc' = IF outcome = "ok" THEN "replace" ELSE "cleanup"
            /\ UNCHANGED gi
    /\ UNCHANGED <<page_ids, num_pages, i, current_group, current_tracking_id,
                   grouped_invoices, groups, seg_error, source_exists,
                   created, ci>>
    /\ UNCHANGED <<resVars, extVars>>

\* Lines 246-247: os.replace(temp_path, final_path); created.append(final_path)
SplitReplace ==
    /\ seg_pc = "replace"
    /\ \E outcome \in IoOutcomes :
       IF outcome = "ok"
       THEN /\ processed' = (processed \ {TempPath(groups[gi])})
                                \cup {FinalPath(groups[gi])}
            /\ created' = Append(created, FinalPath(groups[gi]))
            /\ gi' = gi + 1
            /\ seg_pc' = "split"
       ELSE /\ seg_pc' = "cleanup"
            /\ UNCHANGED <<processed, created, gi>>
    /\ UNCHANGED <<page_ids, num_pages, i, current_group, current_tracking_id,
                   grouped_invoices, groups, seg_error, source_exists, ci>>
    /\ UNCHANGED <<resVars, extVars>>

\* Line 250: p.unlink() once every group is written.
SplitUnlinkSource ==
    /\ seg_pc = "split"
    /\ gi > Len(groups)
    /\ \E outcome \in IoOutcomes :
       IF outcome = "ok"
       THEN /\ source_exists' = FALSE
            /\ seg_pc' = "done"
       ELSE /\ seg_pc' = "cleanup"
            /\ UNCHANGED source_exists
    /\ UNCHANGED <<page_ids, num_pages, i, current_group, current_tracking_id,
                   grouped_invoices, groups, seg_error, processed, created,
                   gi, ci>>
    /\ UNCHANGED <<resVars, extVars>>

\* Lines 254-258: the except branch unlinks each created file; an OSError of
\* unlink is logged and swallowed.
SplitCleanup ==
    /\ seg_pc = "cleanup"
    /\ ci <= Len(created)
    /\ \E outcome \in IoOutcomes :
       processed' = IF outcome = "ok" THEN processed \ {created[ci]}
                    ELSE processed
    /\ ci' = ci + 1
    /\ UNCHANGED <<page_ids, num_pages, i, current_group, current_tracking_id,
                   grouped_invoices, groups, seg_pc, seg_error, source_exists,
                   created, gi>>
    /\ UNCHANGED <<resVars, extVars>>

\* Lines 259-260: the exception is re-raised after the cleanup loop.
SplitRaise ==
    /\ seg_pc = "cleanup"
    /\ ci > Len(created)
    /\ seg_pc' = "error"
    /\ seg_error' = "IOError"
    /\ UNCHANGED <<page_ids, num_pages, i, current_group, current_tracking_id,
                   grouped_invoices, groups, source_exists, processed,
                   created, gi, ci>>
    /\ UNCHANGED <<resVars, extVars>>

-----------------------------------------------------------------------------
(* Segmenter: process_files_to_processed_folder *)

\* Line 335: PROCESSED_DIR / p.name, the file under its own name (a name
\* without page numbers).
MovedPath == [name |-> <<>>, tmp |-> FALSE]

\* Lines 330-338, the PDF branch of the loop over the staging folder: a PDF
\* of at most one page is moved to the processed folder as it is, any other
\* is handed to process_multi_page_pdf. A failing shutil.move raises out of
\* the loop with the file where it was.
ProcessPdf ==
    /\ seg_pc = "dispatch"
    /\ IF num_pages <= 1
       THEN \E outcome \in IoOutcomes :
            IF outcome = "ok"
            THEN /\ processed' = processed \cup {MovedPath}
                 /\ source_exists' = FALSE
                 /\ seg_pc' = "done"
                 /\ UNCHANGED seg_error
            ELSE /\ seg_pc' = "error"
                 /\ seg_error' = "MoveError"
                 /\ UNCHANGED <<processed, source_exists>>
       ELSE /\ seg_pc' = "detect"
            /\ UNCHANGED <<processed, source_exists, seg_error>>
    /\ UNCHANGED <<page_ids, num_pages, i, current_group, current_tracking_id,
                   grouped_invoices, groups, created, gi, ci>>
    /\ UNCHANGED <<resVars, extVars>>

-----------------------------------------------------------------------------
(* Specifications of the segmenter *)

\* process_files_to_processed_folder on a PDF of the staging folder whose
\* pages carry any detected ids.
InitSeg ==
    /\ page_ids \in SeqsUpTo(FoundIds, MaxPages)
    /\ num_pages = Len(page_ids)
    /\ i = 1
    /\ current_group = <<>>
    /\ current_tracking_id = NoId
    /\ grouped_invoices = <<>>
    /\ groups = <<>>
    /\ seg_pc = "dispatch"
    /\ seg_error = "none"
    /\ source_exists = TRUE
    /\ processed = {}
    /\ created = <<>>
    /\ gi = 1
    /\ ci = 1
    /\ ResolverIdle
    /\ ExtIdle

NextSeg ==
    \/ ProcessPdf
    \/ DetectPage
    \/ DetectFinish
    \/ Validate
    \/ SplitWrite
    \/ SplitReplace
    \/ SplitUnlinkSource
    \/ SplitCleanup
    \/ SplitRaise

SpecSeg == InitSeg /\ [][NextSeg]_vars

\* process_multi_page_pdf from the point where the detector has returned,
\* for any tuple of groups a detector could hand back.
GroupPages == 0..(MaxGroupLen + 1)

\* The tuples of at most g groups, each of at most MaxGroupLen indices, that
\* hold at most t indices in all.
RECURSIVE GroupTuples(_, _)
GroupTuples(g, t) ==
    IF g = 0 THEN {<<>>}
    ELSE {<<>>} \cup
         UNION {{<<grp>> \o rest : rest \in GroupTuples(g - 1, t - Len(grp))} :
                grp \in SeqsUpTo(GroupPages, IF t < MaxGroupLen THEN t ELSE MaxGroupLen)}

InitGroups ==
    /\ num_pages = MaxGroupLen
    /\ page_ids = [k \in 1..num_pages |-> NoId]
    /\ grouped_invoices \in GroupTuples(MaxGroups, MaxIndices)
    /\ i = num_pages + 1
    /\ current_group = <<>>
    /\ current_tracking_id = NoId
    /\ groups = <<>>
    /\ seg_pc = "validate"
    /\ seg_error = "none"
    /\ source_exists = TRUE
    /\ processed = {}
    /\ created = <<>>
    /\ gi = 1
    /\ ci = 1
    /\ ResolverIdle
    /\ ExtIdle

NextGroups ==
    \/ Validate
    \/ SplitWrite
    \/ SplitReplace
    \/ SplitUnlinkSource
    \/ SplitCleanup
    \/ SplitRaise

SpecGroups == InitGroups /\ [][NextGroups]_vars

-----------------------------------------------------------------------------
(* Claims about the segmenter *)

\* The id the detector is tracking after page k, said without the loop: the
\* last id found on pages 1..k, or none when no page so far carried one.
RECURSIVE LastId(_)
LastId(k) ==
    IF k = 0 THEN NoId
    ELSE IF page_ids[k] # NoId THEN page_ids[k]
    ELSE LastId(k - 1)

\* Pages that must open a group: page 1, and every later page with an id
\* different from the id tracked before it.
ExpectedStarts ==
    {k \in 1..num_pages :
        k = 1 \/ (page_ids[k] # NoId /\ page_ids[k] # LastId(k - 1))}

GroupStarts(gs) == {g[1] : g \in Range(gs)}

\* Page k directly follows page k-1 inside one group.
ContinuesGroup(gs, k) ==
    \E a \in DOMAIN gs : \E j \in 1..(Len(gs[a]) - 1) :
        gs[a][j] = k - 1 /\ gs[a][j + 1] = k

ExamplePageIds == <<"100", NoId, "100", "200", NoId>>

\* The detector is entered for PDFs of two pages or more only (ProcessPdf).
DetectorReturned == seg_pc \notin {"dispatch", "detect"} /\ num_pages >= 2

\* C1: detect_invoice_page_groups opens a new group at page i > 1 exactly
\* when page i has an id different from the current tracking id, appends the
\* page to the current group otherwise, always opens the first group with
\* page 1, and returns ((1,2,3),(4,5)) for the ids [100, none, 100, 200, none].
C1_NewGroupExactlyOnChangedId ==
    /\ (seg_pc = "detect" /\ i > 1) => current_tracking_id = LastId(i - 1)
    /\ DetectorReturned =>
          /\ \A g \in Range(grouped_invoices) : g # <<>>
          /\ GroupStarts(grouped_invoices) = ExpectedStarts
          /\ \A k \in 2..num_pages :
                k \notin ExpectedStarts => ContinuesGroup(grouped_invoices, k)
    /\ (DetectorReturned /\ page_ids = ExamplePageIds) =>
          grouped_invoices = << <<1, 2, 3>>, <<4, 5>> >>

C1_Witness ==
    /\ seg_pc \notin {"dispatch", "detect"}
    /\ page_ids = ExamplePageIds
    /\ grouped_invoices = << <<1, 2, 3>>, <<4, 5>> >>

\* C2: the groups returned by detect_invoice_page_groups partition the pages:
\* concatenated in output order they are exactly 1, 2, ..., N, and no group
\* is empty.
C2_GroupsPartitionPages ==
    DetectorReturned =>
        /\ Flatten(grouped_invoices) = [k \in 1..num_pages |-> k]
        /\ \A a \in DOMAIN grouped_invoices : grouped_invoices[a] # <<>>

C2_Witness ==
    /\ seg_pc \notin {"dispatch", "detect"}
    /\ num_pages >= 4
    /\ Len(grouped_invoices) >= 3
    /\ \E a \in DOMAIN grouped_invoices : Len(grouped_invoices[a]) >= 2

SplitFinished ==
    \/ seg_pc = "done" /\ groups # <<>>
    \/ seg_pc = "error" /\ seg_error = "IOError"

AllProduced ==
    /\ ~source_exists
    /\ processed = {FinalPath(g) : g \in Range(groups)}

NothingProduced ==
    /\ source_exists
    /\ processed = {}

\* C3: split_pdf_by_page_groups is all-or-nothing: when it finishes, either
\* every group's output file exists and the source is removed, or the source
\* is intact and neither an output nor a temporary file of the call remains.
C3_SplitAllOrNothing == SplitFinished => (AllProduced \/ NothingProduced)

InvalidGroups(gs, n) ==
    \/ \E a \in DOMAIN gs : \E k \in 1..(Len(gs[a]) - 1) :
           gs[a][k + 1] # gs[a][k] + 1
    \/ \E a \in DOMAIN gs : \E k \in DOMAIN gs[a] : gs[a][k] \notin 1..n
    \/ \E a, b \in DOMAIN gs : a # b /\ Range(gs[a]) \cap Range(gs[b]) # {}

\* C4: a group tuple with a non-consecutive group, an index outside
\* 1..page_count or an index shared by two groups makes
\* process_multi_page_pdf raise before anything is written: no file appears,
\* the source stays, and no repaired groups are handed to the splitter.
C4_InvalidGroupsAreFatal ==
    InvalidGroups(grouped_invoices, num_pages) =>
        /\ seg_pc \in {"validate", "error"}
        /\ seg_pc = "error" => seg_error = "ValueError"
        /\ groups = <<>>
        /\ processed = {}
        /\ created = <<>>
        /\ source_exists

C4_Witness ==
    /\ seg_pc = "error"
    /\ seg_error = "ValueError"
    /\ grouped_invoices = << <<1, 2>>, <<2>> >>
    /\ processed = {}
    /\ source_exists

-----------------------------------------------------------------------------
(* Specifications of the vendor resolver *)

\* No file is being segmented.
SegIdle ==
    /\ page_ids = <<>>
    /\ num_pages = 0
    /\ i = 1
    /\ current_group = <<>>
    /\ current_tracking_id = NoId
    /\ grouped_invoices = <<>>
    /\ groups = <<>>
    /\ seg_pc = "idle"
    /\ seg_error = "none"
    /\ source_exists = FALSE
    /\ processed = {}
    /\ created = <<>>
    /\ gi = 1
    /\ ci = 1

\* One call of identify_vendor_and_get_regex on a document with any of the
\* sample signals, against any of the sample registries.
InitResolve ==
    /\ vendors \in RegistrySamples
    /\ templates \in UNION {[S -> {StoredTemplate}] : S \in SUBSET DOMAIN vendors}
    /\ signals \in SignalSamples
    /\ res_pc = "start"
    /\ registry0 = [vendors |-> vendors, templates |-> templates]
    /\ ResolverLocalsInit
    /\ SegIdle
    /\ ExtIdle

NextResolve ==
    \/ ResSearch
    \/ ResFound
    \/ ResPhase1
    \/ ResPhase2
    \/ ResCreateVendor
    \/ ResSaveRegex
    \/ ResReturnCreated

SpecResolve == InitResolve /\ [][NextResolve]_vars

\* The same call where phase 1 succeeds or the model fails, and phase 2 may
\* answer with any candidate template that differs from a valid one in up to
\* MaxVaried fields.
DerivePhase1 == Phase1Step({Phase1Good(VendorRust), LlmRaises})

DerivePhase2 ==
    /\ res_pc = "phase2"
    /\ \/ \E X \in VariedKeySets(MaxVaried) :
             \E f \in [X -> PatternSamples \cup {Missing}] :
                Phase2Step({Phase2Object(CandidateWith(f))})
       \/ Phase2Step(Phase2Malformed)

InitDerive ==
    /\ vendors = <<VendorAcme>>
    /\ templates = <<StoredTemplate>>
    /\ signals \in {NoSignals, [NoSignals EXCEPT !.website = <<"A", "C", "M", "E", ".", "c", "o">>]}
    /\ res_pc = "start"
    /\ registry0 = [vendors |-> vendors, templates |-> templates]
    /\ ResolverLocalsInit
    /\ SegIdle
    /\ ExtIdle

NextDerive ==
    \/ ResSearch
    \/ ResFound
    \/ DerivePhase1
    \/ DerivePhase2
    \/ ResCreateVendor
    \/ ResSaveRegex
    \/ ResReturnCreated

SpecDerive == InitDerive /\ [][NextDerive]_vars

-----------------------------------------------------------------------------
(* Claims about the vendor resolver *)

SignalRank(kind) ==
    CASE kind = "website" -> 1
      [] kind = "email"   -> 2
      [] kind = "phone"   -> 3
      [] kind = "address" -> 4
      [] kind = "name"    -> 5

SignalKinds == {"website", "email", "phone", "address", "name"}

\* The vendor the registry, as it was when the call began, returns for the
\* document's signal of this kind; 0 when the signal is absent, unusable or
\* matches no vendor.
Match(kind) ==
    LET value == signals[SignalKey(kind)] IN
    IF ~Truthy(value) THEN 0
    ELSE GetVendorBy(RegistryField(kind), QueryValue(kind, value), registry0.vendors)

Searched == res_pc \notin {"idle", "start"}

\* The last lookup of the search raised: the search returned nothing.
LookupRaised == lookups # <<>> /\ Last(lookups).raised

\* C5: search_vendor_by_signals tries website, email, phone, address, name in
\* that order, makes a lookup only when every earlier lookup found nothing,
\* and, unless a lookup raises, returns the first match with its signal
\* type; a website match of vendor A wins over a name match of another
\* vendor B.
C5_FirstMatchInPriorityOrder ==
    Searched =>
        /\ \A j \in 1..(Len(lookups) - 1) :
              /\ lookups[j].vid = 0
              /\ ~lookups[j].raised
              /\ SignalRank(lookups[j].kind) < SignalRank(lookups[j + 1].kind)
        /\ LookupRaised => vendor_id = 0 /\ res_pc = "error"
        /\ ~LookupRaised =>
              /\ vendor_id # 0 =>
                    /\ lookups # <<>>
                    /\ Last(lookups) = [kind |-> matched_by, vid |-> vendor_id,
                                         raised |-> FALSE]
              /\ vendor_id = 0 => \A j \in DOMAIN lookups : lookups[j].vid = 0
              /\ LET hits == {kind \in SignalKinds : Match(kind) # 0} IN
                 IF hits = {} THEN vendor_id = 0 /\ matched_by = "none"
                 ELSE LET best == CHOOSE kind \in hits :
                                     \A h \in hits : SignalRank(kind) <= SignalRank(h)
                      IN vendor_id = Match(best) /\ matched_by = best
              /\ (Match("website") # 0 /\ Match("name") # 0
                      /\ Match("website") # Match("name")) =>
                    vendor_id = Match("website") /\ matched_by = "website"

C5_Witness ==
    /\ Searched
    /\ Match("website") # 0
    /\ Match("name") # 0
    /\ Match("website") # Match("name")
    /\ vendor_id = Match("website")
    /\ matched_by = "website"
    /\ Len(lookups) = 1
    /\ ~LookupRaised

KnownVendorWithoutTemplate ==
    /\ res_pc \notin {"idle", "start", "found"}
    /\ vendor_id # 0
    /\ GetVendorRegexPatterns(vendor_id, registry0.templates) = <<>>

RegistryUnchanged ==
    /\ vendors = registry0.vendors
    /\ templates = registry0.templates

\* C6: a matched vendor without a stored template ends the call with a fatal
\* error (the ValueError of line 1136, or the exception of a registry read
\* that raised before it): no derivation phase starts, no language-model
\* call is made and neither a vendor nor a template is created.
C6_MissingTemplateIsFatal ==
    KnownVendorWithoutTemplate =>
        /\ res_pc = "error"
        /\ res_error \in {"ValueError", "DBError"}
        /\ llm_calls = 0
        /\ llm_response = NoLlmResponse
        /\ phase1 = [vendor_master_data |-> PyNone]
        /\ new_regexes = <<>>
        /\ RegistryUnchanged

C6_Witness ==
    /\ KnownVendorWithoutTemplate
    /\ res_pc = "error"
    /\ res_error = "ValueError"
    /\ matched_by = "email"
    /\ llm_calls = 0
    /\ RegistryUnchanged

PhaseErrors ==
    {"LLMError", "Phase1ParseError", "Phase1ValidationError",
     "Phase2ParseError", "Phase2ValidationError"}

\* C7: when no vendor matched and phase 1 or phase 2 fails (the model call
\* fails, its output is not an object, or validation rejects it), the call
\* has persisted neither a vendor nor a template.
C7_FailedDerivationPersistsNothing ==
    (res_pc = "error" /\ vendor_id = 0 /\ res_error \in PhaseErrors) =>
        RegistryUnchanged

C7_Witness ==
    /\ res_pc = "error"
    /\ vendor_id = 0
    /\ res_error = "Phase2ValidationError"
    /\ llm_calls = 2
    /\ Truthy(phase1.vendor_master_data.vendor_name)
    /\ RegistryUnchanged

\* The call derived a vendor, inserted it and stored its template.
DerivedSuccessfully ==
    /\ res_pc = "done"
    /\ result.created
    /\ new_vendor_id # 0
    /\ new_vendor_id \in DOMAIN templates

\* C8: after a successful derivation the result has created = true, the id of
\* the vendor just inserted, that vendor's name, and the derived template.
C8_CreatedResultNamesNewVendor ==
    DerivedSuccessfully =>
        /\ result.created
        /\ result.vendor_id = Len(vendors)
        /\ result.vendor_name = vendors[result.vendor_id].name
        /\ result.regex = new_regexes

\* The field k of the candidate the model answered with, or Missing.
CandidateField(k) ==
    LET level == IF k \in RequiredInvoiceKeys THEN "invoice_level"
                 ELSE "line_item_level"
    IN IF /\ llm_response.is_dict
          /\ level \in DOMAIN llm_response.root
          /\ llm_response.root[level].isdict
          /\ k \in DOMAIN llm_response.root[level].d
       THEN llm_response.root[level].d[k]
       ELSE Missing

IsString(v) == v # Missing /\ v # PyNone

\* Phase 2 has received an answer from the model (its call is the second).
Phase2Answered == llm_calls = 2 /\ llm_response.call = "returns"

Phase2Rejected ==
    /\ res_pc = "error"
    /\ res_error \in {"Phase2ParseError", "Phase2ValidationError"}
    /\ new_regexes = <<>>

Phase2Accepted ==
    /\ res_error \notin {"Phase2ParseError", "Phase2ValidationError"}
    /\ new_regexes = llm_response.root

\* C9: phase-2 validation rejects every candidate whose invoice_number,
\* invoice_date or invoice_total_amount is blank, and accepts every candidate
\* that has all eleven required keys with each of them a non-empty string
\* holding at least one capture group (counted as _count_capture_groups does).
C9_BlankMandatoryRejectedCompleteAccepted ==
    Phase2Answered =>
        /\ (\E k \in {"invoice_number", "invoice_date", "invoice_total_amount"} :
                IsString(CandidateField(k)) /\ IsBlank(CandidateField(k)))
              => Phase2Rejected
        /\ (\A k \in TemplateKeys :
                /\ IsString(CandidateField(k))
                /\ CandidateField(k) # <<>>
                /\ CountCaptureGroups(CandidateField(k)) >= 1)
              => Phase2Accepted

C9_Witness ==
    /\ Phase2Answered
    /\ CandidateField("invoice_date") = <<" ">>
    /\ \A k \in TemplateKeys \ {"invoice_date"} : CandidateField(k) = <<"(", "a", ")">>
    /\ Phase2Rejected

\* A field the validation has nothing to object to.
FieldAcceptable(k) ==
    /\ IsString(CandidateField(k))
    /\ ~IsBlank(CandidateField(k))
    /\ (k \in MarkerFields \/ CountCaptureGroups(CandidateField(k)) >= 1)

FieldEmpty(k) == IsString(CandidateField(k)) /\ IsBlank(CandidateField(k))

\* C10 as claimed: the line-item fields whose emptiness causes rejection are
\* exactly quantity, description, unit, unit_price and line_total; an empty
\* block marker alone does not cause rejection.
C10_EmptyNonMarkerFieldsRejected ==
    Phase2Answered =>
        /\ (\E k \in RequiredLineItemKeys \ MarkerFields : FieldEmpty(k))
              => Phase2Rejected
        /\ ((\A k \in TemplateKeys \ MarkerFields : FieldAcceptable(k))
                /\ (\A k \in MarkerFields : IsString(CandidateField(k))))
              => Phase2Accepted

\* C10 as amended: the line-item fields whose emptiness causes rejection are
\* exactly line_item_block_start, line_item_block_end, description, quantity,
\* unit_price and line_total; an empty unit alone does not cause rejection.
C10_EmptyStrictLineFieldsRejected ==
    Phase2Answered =>
        /\ (\E k \in RequiredLineItemKeys \ {"unit"} : FieldEmpty(k))
              => Phase2Rejected
        /\ ((\A k \in TemplateKeys \ {"unit"} : FieldAcceptable(k))
                /\ FieldEmpty("unit"))
              => Phase2Accepted

C10_Witness ==
    /\ Phase2Answered
    /\ CandidateField("unit") = <<>>
    /\ CandidateField("line_item_block_end") = <<"a">>
    /\ \A k \in TemplateKeys \ {"unit"} : FieldAcceptable(k)
    /\ Phase2Accepted

BlockMarkers == {"line_item_block_start", "line_item_block_end"}

\* A field that holds a pattern: a string that is not blank.
HoldsPattern(k) == IsString(CandidateField(k)) /\ ~IsBlank(CandidateField(k))

\* C11: phase-2 validation rejects a candidate when a non-empty pattern other
\* than the two block markers has zero capture groups (as counted by
\* _count_capture_groups); it accepts a candidate whose non-marker patterns
\* all have one or more groups whatever the excess, and whatever the number
\* of groups in the two block markers.
C11_ZeroGroupsRejectedExcessAndMarkersIgnored ==
    Phase2Answered =>
        /\ (\E k \in TemplateKeys \ BlockMarkers :
                HoldsPattern(k) /\ CountCaptureGroups(CandidateField(k)) = 0)
              => Phase2Rejected
        /\ (\A k \in TemplateKeys :
                /\ HoldsPattern(k)
                /\ k \notin BlockMarkers => CountCaptureGroups(CandidateField(k)) >= 1)
              => Phase2Accepted

C11_Witness ==
    /\ Phase2Answered
    /\ CandidateField("line_item_block_start") = <<"a">>
    /\ CandidateField("quantity") = <<"(", "a", ")", "(", "b", ")">>
    /\ \A k \in TemplateKeys : HoldsPattern(k)
    /\ Phase2Accepted

\* The ids of the vendor records inserted since the call began.
CreatedVendors == DOMAIN vendors \ DOMAIN registry0.vendors

\* C28: when a call of identify_vendor_and_get_regex has ended, by return or
\* by exception, registry write failures included, every vendor record it
\* created has a stored template of exactly 11 patterns.
C28_CreatedVendorHasTemplate ==
    res_pc \in {"done", "error"} =>
        \A id \in CreatedVendors :
            /\ id \in DOMAIN templates
            /\ Len(templates[id]) = 11

-----------------------------------------------------------------------------
(* apply_regex_extraction: src/src/processing/vendor_identifier.py 924-1085 *)

\* str.split(): the maximal runs of non-whitespace characters.
RECURSIVE Tokens(_)
Tokens(s) ==
    LET t == LStrip(s) IN
    IF t = <<>> THEN <<>>
    ELSE LET stops == {j \in DOMAIN t : t[j] \in SpaceChars}
             n == IF stops = {} THEN Len(t) + 1
                  ELSE CHOOSE j \in stops : \A h \in stops : j <= h
         IN <<SubSeq(t, 1, n - 1)>> \o Tokens(SubSeq(t, n, Len(t)))

\* " ".join(tokens)
RECURSIVE JoinTokens(_)
JoinTokens(ts) ==
    IF ts = <<>> THEN <<>>
    ELSE IF Len(ts) = 1 THEN Head(ts)
    ELSE Head(ts) \o <<" ">> \o JoinTokens(Tail(ts))

\* `pattern and pattern.strip()`
HasText(pattern) == Truthy(pattern) /\ Strip(pattern) # <<>>

DigitString == <<"0", "1", "2", "3", "4", "5", "6", "7", "8", "9">>

DigitVal(c) == (CHOOSE d \in DOMAIN DigitString : DigitString[d] = c) - 1

\* int(ds) for a string of digits ("" counts 0).
RECURSIVE NatOf(_)
NatOf(ds) ==
    IF ds = <<>> THEN 0
    ELSE 10 * NatOf(SubSeq(ds, 1, Len(ds) - 1)) + DigitVal(ds[Len(ds)])

\* re.search, as the backtracking matcher of Python's re does it, for the
\* part of the pattern syntax that follows. A pattern is read as a sequence
\* of tokens: a character that stands for itself; "." for any character but
\* a newline; a backslash followed by d, D, s, S, w or W for one character of
\* that class, by n, t, r, f or v for that control character, by b, B, A or Z
\* for the assertion, by a character that is no letter and no digit for that
\* character (by another letter the pattern is in error); a character class
\* "[...]", negated by "^", of characters, ranges of printable ASCII
\* characters and class escapes; "^" and "$"; "(" and "(?:" for a capturing
\* and a non-capturing group, ")" and "|"; the quantifiers "*", "+", "?",
\* "{m}", "{m,}", "{,n}" and "{m,n}", lazy when followed by "?"; "(?i)" at
\* the start for IGNORECASE. Backreferences, named groups, lookaround, the
\* other inline flags, possessive quantifiers and the escapes \a, \x, \u and
\* \N are not modelled: a pattern that holds one is reported as such.

\* The class [\s\S] as it is written.
AnyClass == <<"[", "\\", "s", "\\", "S", "]">>

\* The printable ASCII characters in code order; the ranges of a character
\* class are read in this order. The grave accent (code 96), which a string
\* of this module cannot hold, is the one-character text "<backtick>".
AsciiChars ==
    <<" ", "!", "\"", "#", "$", "%", "&", "'", "(", ")", "*", "+", ",", "-",
      ".", "/", "0", "1", "2", "3", "4", "5", "6", "7", "8", "9", ":", ";",
      "<", "=", ">", "?", "@", "A", "B", "C", "D", "E", "F", "G", "H", "I",
      "J", "K", "L", "M", "N", "O", "P", "Q", "R", "S", "T", "U", "V", "W",
      "X", "Y", "Z", "[", "\\", "]", "^", "_", "<backtick>", "a", "b", "c", "d",
      "e", "f", "g", "h", "i", "j", "k", "l", "m", "n", "o", "p", "q", "r",
      "s", "t", "u", "v", "w", "x", "y", "z", "{", "|", "}", "~">>

\* The place of a character in that order; 0 for any other character.
CodeOf(c) ==
    IF \E k \in DOMAIN AsciiChars : AsciiChars[k] = c
    THEN CHOOSE k \in DOMAIN AsciiChars : AsciiChars[k] = c
    ELSE 0

UpperChar(c) ==
    IF \E k \in DOMAIN LowerChars : LowerChars[k] = c
    THEN UpperChars[CHOOSE k \in DOMAIN LowerChars : LowerChars[k] = c]
    ELSE c

\* The characters \w matches.
WordChars == Range(LowerChars) \cup Range(UpperChars) \cup DigitChars \cup {"_"}

\* A token of a pattern. An atom matches one character: one of set or of a
\* class of cls, or, negated, none of them. A quantifier repeats what is
\* before it min to max times (max -1: without limit).
ReTok(t) ==
    [t |-> t, neg |-> FALSE, set |-> {}, cls |-> {}, min |-> 1, max |-> 1,
     lazy |-> FALSE]

ReAtom(neg, set, cls) == [ReTok("atom") EXCEPT !.neg = neg, !.set = set, !.cls = cls]

ReQuant(min, max, lazy) ==
    [ReTok("quant") EXCEPT !.min = min, !.max = max, !.lazy = lazy]

\* A token and the place in the pattern after it.
ReLexed(tok, next) == [tok |-> tok, next |-> next]

ReClassLetters == {"d", "D", "s", "S", "w", "W"}

ReControlLetters == {"n", "t", "r", "f", "v"}

ReControlChar(c) ==
    CASE c = "n" -> "\n"
      [] c = "t" -> "\t"
      [] c = "r" -> "\r"
      [] c = "f" -> "\f"
      [] OTHER -> "<vt>"

ReNotModelled == DigitChars \cup {"a", "x", "u", "U", "N"}

ReLetters == Range(LowerChars) \cup Range(UpperChars)

\* The token of a backslash followed by c, outside a class.
ReEscape(c) ==
    CASE c \in ReClassLetters -> ReAtom(FALSE, {}, {c})
      [] c \in ReControlLetters -> ReAtom(FALSE, {ReControlChar(c)}, {})
      [] c = "b" -> ReTok("wordb")
      [] c = "B" -> ReTok("notwordb")
      [] c = "A" -> ReTok("bos")
      [] c = "Z" -> ReTok("eos")
      [] c \in ReNotModelled -> ReTok("unsupported")
      [] c \in ReLetters -> ReTok("error")
      [] OTHER -> ReAtom(FALSE, {c}, {})

\* The members of a class: characters, classes, and whether the class is
\* well formed.
ReMembers(set, cls, status) == [set |-> set, cls |-> cls, status |-> status]

ReWorse(a, b) ==
    IF "unsupported" \in {a, b} THEN "unsupported"
    ELSE IF "error" \in {a, b} THEN "error"
    ELSE "ok"

ReJoin(a, b) ==
    ReMembers(a.set \cup b.set, a.cls \cup b.cls, ReWorse(a.status, b.status))

\* A backslash followed by c, inside a class.
ReClassEscape(c) ==
    CASE c \in ReClassLetters -> ReMembers({}, {c}, "ok")
      [] c \in ReControlLetters -> ReMembers({ReControlChar(c)}, {}, "ok")
      [] c \in ReNotModelled \cup {"b"} -> ReMembers({}, {}, "unsupported")
      [] c \in ReLetters -> ReMembers({}, {}, "error")
      [] OTHER -> ReMembers({c}, {}, "ok")

\* The range lo-hi of a class.
ReRange(lo, hi) ==
    IF hi = "\\" \/ CodeOf(lo) = 0 \/ CodeOf(hi) = 0
    THEN ReMembers({}, {}, "unsupported")
    ELSE IF CodeOf(lo) > CodeOf(hi) THEN ReMembers({}, {}, "error")
    ELSE ReMembers({AsciiChars[k] : k \in CodeOf(lo)..CodeOf(hi)}, {}, "ok")

\* The members written at a..(e - 1), e being the place of the closing "]".
RECURSIVE ReClassItems(_, _, _)
ReClassItems(p, a, e) ==
    IF a >= e THEN ReMembers({}, {}, "ok")
    ELSE IF p[a] = "\\" /\ a + 3 < e /\ p[a + 2] = "-"
    THEN ReMembers({}, {}, "unsupported")
    ELSE IF p[a] = "\\"
    THEN ReJoin(ReClassEscape(p[a + 1]), ReClassItems(p, a + 2, e))
    ELSE IF a + 2 < e /\ p[a + 1] = "-"
    THEN ReJoin(ReRange(p[a], p[a + 2]), ReClassItems(p, a + 3, e))
    ELSE ReJoin(ReMembers({p[a]}, {}, "ok"), ReClassItems(p, a + 1, e))

\* The place of the first member of the class that opens at k.
ReClassFirst(p, k) == IF k < Len(p) /\ p[k + 1] = "^" THEN k + 2 ELSE k + 1

\* The character at j follows an odd number of backslashes that begin at a
\* or after it.
ReEscapedIn(p, a, j) ==
    Cardinality({m \in a..(j - 1) : \A n \in m..(j - 1) : p[n] = "\\"}) % 2 = 1

\* The places where the class whose first member is at a may close: a "]"
\* that is not the first member and is not escaped.
ReClassCloses(p, a) ==
    {j \in (a + 1)..Len(p) : p[j] = "]" /\ ~ReEscapedIn(p, a, j)}

ReClassToken(neg, members) ==
    IF members.status = "ok" THEN ReAtom(neg, members.set, members.cls)
    ELSE ReTok(members.status)

ReLexClassTo(p, k, a, e) ==
    ReLexed(ReClassToken(a = k + 2, ReClassItems(p, a, e)), e + 1)

ReLexClassFrom(p, k, a, closes) ==
    IF closes = {} THEN ReLexed(ReTok("error"), Len(p) + 1)
    ELSE ReLexClassTo(p, k, a, CHOOSE j \in closes : \A h \in closes : j <= h)

ReLexClass(p, k) ==
    ReLexClassFrom(p, k, ReClassFirst(p, k), ReClassCloses(p, ReClassFirst(p, k)))

\* The quantifier whose last character is at end.
ReLexQuant(p, min, max, end) ==
    IF max >= 0 /\ max < min THEN ReLexed(ReTok("error"), end + 1)
    ELSE IF end < Len(p) /\ p[end + 1] = "?"
    THEN ReLexed(ReQuant(min, max, TRUE), end + 2)
    ELSE IF end < Len(p) /\ p[end + 1] = "+"
    THEN ReLexed(ReTok("unsupported"), end + 2)
    ELSE ReLexed(ReQuant(min, max, FALSE), end + 1)

\* The first place from k on that holds no digit.
ReDigitsEnd(p, k) ==
    IF \A j \in k..Len(p) : p[j] \in DigitChars THEN Len(p) + 1
    ELSE CHOOSE j \in k..Len(p) :
            p[j] \notin DigitChars /\ \A h \in k..(j - 1) : p[h] \in DigitChars

\* "{" at k with the digits lo ending before a and the digits hi, after a
\* comma, ending before b: a quantifier when "}" is at b, else the
\* character "{".
ReLexBraceTo(p, k, a, b) ==
    IF b > Len(p) \/ p[b] # "}" THEN ReLexed(ReAtom(FALSE, {"{"}, {}), k + 1)
    ELSE ReLexQuant(p,
                    IF a = k + 1 THEN 0 ELSE NatOf(SubSeq(p, k + 1, a - 1)),
                    IF a = b THEN (IF a = k + 1 THEN -1 ELSE NatOf(SubSeq(p, k + 1, a - 1)))
                    ELSE IF b = a + 1 THEN -1
                    ELSE NatOf(SubSeq(p, a + 1, b - 1)),
                    b)

ReLexBraceFrom(p, k, a) ==
    IF a <= Len(p) /\ p[a] = ","
    THEN ReLexBraceTo(p, k, a, ReDigitsEnd(p, a + 1))
    ELSE ReLexBraceTo(p, k, a, a)

ReLexBrace(p, k) ==
    IF k < Len(p) /\ p[k + 1] = "}" THEN ReLexed(ReAtom(FALSE, {"{"}, {}), k + 1)
    ELSE ReLexBraceFrom(p, k, ReDigitsEnd(p, k + 1))

\* "(" at k.
ReLexGroup(p, k) ==
    IF k < Len(p) /\ p[k + 1] = "?"
    THEN IF k + 2 <= Len(p) /\ p[k + 2] = ":"
         THEN ReLexed(ReTok("noncapturing"), k + 3)
         ELSE IF k + 3 <= Len(p) /\ SubSeq(p, k + 2, k + 3) = <<"i", ")">>
         THEN ReLexed(ReTok(IF k = 1 THEN "flag" ELSE "error"), k + 4)
         ELSE ReLexed(ReTok("unsupported"), k + 2)
    ELSE ReLexed(ReTok("open"), k + 1)

\* The token that begins at k.
ReLexAt(p, k) ==
    CASE p[k] = "\\" ->
            IF k = Len(p) THEN ReLexed(ReTok("error"), k + 1)
            ELSE ReLexed(ReEscape(p[k + 1]), k + 2)
      [] p[k] = "[" -> ReLexClass(p, k)
      [] p[k] = "(" -> ReLexGroup(p, k)
      [] p[k] = ")" -> ReLexed(ReTok("close"), k + 1)
      [] p[k] = "|" -> ReLexed(ReTok("alt"), k + 1)
      [] p[k] = "*" -> ReLexQuant(p, 0, -1, k)
      [] p[k] = "+" -> ReLexQuant(p, 1, -1, k)
      [] p[k] = "?" -> ReLexQuant(p, 0, 1, k)
      [] p[k] = "{" -> ReLexBrace(p, k)
      [] p[k] = "." -> ReLexed(ReAtom(TRUE, {"\n"}, {}), k + 1)
      [] p[k] = "^" -> ReLexed(ReTok("bol"), k + 1)
      [] p[k] = "$" -> ReLexed(ReTok("eol"), k + 1)
      [] OTHER -> ReLexed(ReAtom(FALSE, {p[k]}, {}), k + 1)

\* Tokens and the place in the pattern after them.
ReLexedAll(toks, next) == [toks |-> toks, next |-> next]

ReLexOne(lexed) == ReLexedAll(<<lexed.tok>>, lexed.next)

ReLexBoth(left, right) == ReLexedAll(left.toks \o right.toks, right.next)

\* The tokens that begin at the places a..(b - 1), a token beginning at a.
RECURSIVE ReLexRange(_, _, _)
ReLexJoin(p, b, left) == ReLexBoth(left, ReLexRange(p, left.next, b))

ReLexRange(p, a, b) ==
    IF a >= b THEN ReLexedAll(<<>>, a)
    ELSE IF b = a + 1 THEN ReLexOne(ReLexAt(p, a))
    ELSE ReLexJoin(p, b, ReLexRange(p, a, (a + b) \div 2))

\* The tokens of the pattern from k on.
ReLex(p, k) == ReLexRange(p, k, Len(p) + 1).toks

ReTokens(pattern) == ReLex(pattern, 1)

ReGroupTokens == {"open", "noncapturing"}

\* The groups opened, and closed, by the tokens 1..k.
ReOpens(ts, k) == Cardinality({j \in 1..k : ts[j].t \in ReGroupTokens})

ReCloses(ts, k) == Cardinality({j \in 1..k : ts[j].t = "close"})

ReLevel(ts, k) == ReOpens(ts, k) - ReCloses(ts, k)

\* re.compile accepts the tokens: the parentheses balance and every
\* quantifier follows something it can repeat.
ReValid(ts) ==
    /\ \A k \in DOMAIN ts : ts[k].t # "error"
    /\ \A k \in DOMAIN ts : ReLevel(ts, k) >= 0
    /\ ReLevel(ts, Len(ts)) = 0
    /\ \A k \in DOMAIN ts :
          ts[k].t = "quant" => k > 1 /\ ts[k - 1].t \in {"atom", "close"}

\* Every token is of the modelled part of the syntax.
ReModelled(ts) == \A k \in DOMAIN ts : ts[k].t # "unsupported"

\* The compiled pattern has a group 1.
ReHasGroup(pattern) == \E k \in DOMAIN ReTokens(pattern) : ReTokens(pattern)[k].t = "open"

\* The ascending sequence of a set of numbers.
RECURSIVE ReSorted(_)
ReSorted(set) ==
    IF set = {} THEN <<>>
    ELSE <<CHOOSE j \in set : \A h \in set : j <= h>>
         \o ReSorted(set \ {CHOOSE j \in set : \A h \in set : j <= h})

\* For each token that opens a group, the token that closes it. (SubSeq
\* makes the function a sequence of values, here and below.)
ReCloseOf(ts) ==
    SubSeq([g \in DOMAIN ts |->
               IF ts[g].t \notin ReGroupTokens THEN 0
               ELSE CHOOSE j \in (g + 1)..Len(ts) :
                       /\ ReLevel(ts, j) = ReLevel(ts, g) - 1
                       /\ \A h \in (g + 1)..(j - 1) : ReLevel(ts, h) >= ReLevel(ts, g)],
           1, Len(ts))

\* For each token, the token that opens the innermost group it is in.
ReGroupOf(ts, close) ==
    SubSeq([k \in DOMAIN ts |->
               IF \A g \in 1..(k - 1) : close[g] < k THEN 0
               ELSE CHOOSE g \in 1..(k - 1) :
                       close[g] >= k /\ \A h \in (g + 1)..(k - 1) : close[h] < k],
           1, Len(ts))

\* For each group, where its alternatives begin.
ReAltsOf(ts, group) ==
    SubSeq([g \in DOMAIN ts |->
               IF ts[g].t \notin ReGroupTokens THEN <<>>
               ELSE ReSorted({g + 1} \cup {j + 1 : j \in {h \in DOMAIN ts :
                                               ts[h].t = "alt" /\ group[h] = g}})],
           1, Len(ts))

ReFirstGroup(ts) ==
    IF \A k \in DOMAIN ts : ts[k].t # "open" THEN 0
    ELSE CHOOSE k \in DOMAIN ts :
            ts[k].t = "open" /\ \A j \in 1..(k - 1) : ts[j].t # "open"

ReContextOf(ts, multiline, close, group) ==
    [ts        |-> ts,
     n         |-> Len(ts),
     fold      |-> \E k \in DOMAIN ts : ts[k].t = "flag",
     multiline |-> multiline,
     g1        |-> ReFirstGroup(ts),
     close     |-> close,
     group     |-> group,
     alts      |-> ReAltsOf(ts, group),
     zeros     |-> SubSeq([k \in DOMAIN ts |-> 0], 1, Len(ts))]

ReContextTo(ts, multiline, close) ==
    ReContextOf(ts, multiline, close, ReGroupOf(ts, close))

\* What the matcher knows of a compiled pattern: its tokens, put in a
\* non-capturing group, the flags, and the structure of the groups.
ReContext(ts, multiline) ==
    ReContextTo(<<ReTok("noncapturing")>> \o ts \o <<ReTok("close")>>, multiline,
                ReCloseOf(<<ReTok("noncapturing")>> \o ts \o <<ReTok("close")>>))

ReClassHas(tag, c) ==
    CASE tag = "d" -> c \in DigitChars
      [] tag = "D" -> c \notin DigitChars
      [] tag = "s" -> c \in SpaceChars
      [] tag = "S" -> c \notin SpaceChars
      [] tag = "w" -> c \in WordChars
      [] OTHER -> c \notin WordChars

ReIn(atom, c) == c \in atom.set \/ \E tag \in atom.cls : ReClassHas(tag, c)

\* The atom matches the character c.
ReChar(atom, c, fold) ==
    (\/ ReIn(atom, c)
     \/ fold /\ (ReIn(atom, LowerChar(c)) \/ ReIn(atom, UpperChar(c)))) # atom.neg

\* The assertion holds at offset pos of txt. Neither \b nor \B holds in an
\* empty text.
ReAssert(t, txt, pos, multiline) ==
    CASE t = "bol" -> pos = 0 \/ (multiline /\ txt[pos] = "\n")
      [] t = "eol" -> \/ pos = Len(txt)
                      \/ pos = Len(txt) - 1 /\ txt[Len(txt)] = "\n"
                      \/ multiline /\ txt[pos + 1] = "\n"
      [] t = "bos" -> pos = 0
      [] t = "eos" -> pos = Len(txt)
      [] t = "wordb" ->
            /\ txt # <<>>
            /\ (pos > 0 /\ txt[pos] \in WordChars)
                  # (pos < Len(txt) /\ txt[pos + 1] \in WordChars)
      [] OTHER ->
            /\ txt # <<>>
            /\ (pos > 0 /\ txt[pos] \in WordChars)
                  = (pos < Len(txt) /\ txt[pos + 1] \in WordChars)

\* The state of a match attempt: the offset reached, the span of group 1
\* (-1: it took no part), the offset beyond which the match has to end, and
\* for each group the iterations completed, the offset at which the current
\* one began, and the offset at which the last one that was not needed for
\* the minimum began (-1: there is none).
ReState(re, start) ==
    [ok |-> TRUE, start |-> start, pos |-> start, gs |-> -1, ge |-> -1,
     floor |-> -1, cnt |-> re.zeros, at |-> re.zeros, last |-> re.zeros]

ReFail == [ok |-> FALSE, start |-> 0, pos |-> 0, gs |-> -1, ge |-> -1]

ReDone(st) == [ok |-> TRUE, start |-> st.start, pos |-> st.pos, gs |-> st.gs, ge |-> st.ge]

\* The first of two attempts that succeeds.
ReOr(first, second) == IF first.ok THEN first ELSE second

\* The quantifier of the atom or group that ends at token g.
ReQuantOf(re, g) ==
    IF g < re.n /\ re.ts[g + 1].t = "quant" THEN re.ts[g + 1] ELSE ReQuant(1, 1, FALSE)

\* The token after the atom or group that ends at token g and its quantifier.
ReAfter(re, g) == IF g < re.n /\ re.ts[g + 1].t = "quant" THEN g + 2 ELSE g + 1

\* How many characters from offset pos on the atom matches, cap at most.
ReRunLength(re, txt, atom, pos, cap) ==
    IF \A j \in 1..cap : ReChar(atom, txt[pos + j], re.fold) THEN cap
    ELSE (CHOOSE j \in 1..cap :
            /\ ~ReChar(atom, txt[pos + j], re.fold)
            /\ \A h \in 1..(j - 1) : ReChar(atom, txt[pos + h], re.fold)) - 1

ReCap(txt, pos, max) ==
    IF max >= 0 /\ max < Len(txt) - pos THEN max ELSE Len(txt) - pos

RECURSIVE ReRun(_, _, _, _)
RECURSIVE ReTry(_, _, _, _, _, _, _, _)
RECURSIVE ReAlts(_, _, _, _, _)

\* The rest of the pattern from token next on, after first + lo * step
\* repetitions of an atom, then after first + (lo + 1) * step of them, up
\* to first + hi * step: the first of these attempts that succeeds.
ReTry(re, txt, next, st, first, step, lo, hi) ==
    IF lo = hi
    THEN ReRun(re, txt, next, [st EXCEPT !.pos = st.pos + first + lo * step])
    ELSE ReOr(ReTry(re, txt, next, st, first, step, lo, (lo + hi) \div 2),
              ReTry(re, txt, next, st, first, step, (lo + hi) \div 2 + 1, hi))

\* An atom and its quantifier: the most repetitions first, or the fewest
\* when the quantifier is lazy.
ReAtomTry(re, txt, g, st, q, run) ==
    IF run < q.min THEN ReFail
    ELSE IF q.lazy THEN ReTry(re, txt, ReAfter(re, g), st, q.min, 1, 0, run - q.min)
    ELSE ReTry(re, txt, ReAfter(re, g), st, run, -1, 0, run - q.min)

ReAtomRun(re, txt, g, st, q) ==
    ReAtomTry(re, txt, g, st, q,
              ReRunLength(re, txt, re.ts[g], st.pos, ReCap(txt, st.pos, q.max)))

\* The alternatives of a group, in order, from the k-th on.
ReAlts(re, txt, st, starts, k) ==
    IF k > Len(starts) THEN ReFail
    ELSE ReOr(ReRun(re, txt, starts[k], st), ReAlts(re, txt, st, starts, k + 1))

\* One more iteration of the group that opens at token g, c being done; it
\* is needed for the minimum, or it is one more than that.
ReIter(re, txt, g, st, c) ==
    ReAlts(re, txt, [st EXCEPT !.cnt[g] = c, !.at[g] = st.pos], re.alts[g], 1)

ReIterMore(re, txt, g, st, c) ==
    ReAlts(re, txt, [st EXCEPT !.cnt[g] = c, !.at[g] = st.pos, !.last[g] = st.pos],
           re.alts[g], 1)

\* The group that opens at token g is reached: no iteration of it began yet.
ReEnter(st, g) == [st EXCEPT !.last[g] = -1]

\* The group that opens at token g is reached from before it.
ReGroupRun(re, txt, g, st, q) ==
    IF q.max = 0 THEN ReRun(re, txt, ReAfter(re, re.close[g]), st)
    ELSE IF q.min > 0 THEN ReIter(re, txt, g, ReEnter(st, g), 0)
    ELSE IF q.lazy
    THEN ReOr(ReRun(re, txt, ReAfter(re, re.close[g]), st),
              ReIterMore(re, txt, g, ReEnter(st, g), 0))
    ELSE ReOr(ReIterMore(re, txt, g, ReEnter(st, g), 0),
              ReRun(re, txt, ReAfter(re, re.close[g]), st))

\* An iteration of the group g..j ends with c iterations done: the group is
\* repeated, or left. It is not repeated beyond the minimum at the offset
\* at which the last iteration beyond the minimum began.
ReCloseStep(re, txt, g, j, st, q, c) ==
    IF c < q.min THEN ReIter(re, txt, g, st, c)
    ELSE IF (q.max >= 0 /\ c >= q.max) \/ st.pos = st.last[g]
    THEN ReRun(re, txt, ReAfter(re, j), st)
    ELSE IF q.lazy
    THEN ReOr(ReRun(re, txt, ReAfter(re, j), st), ReIterMore(re, txt, g, st, c))
    ELSE ReOr(ReIterMore(re, txt, g, st, c), ReRun(re, txt, ReAfter(re, j), st))

\* Group 1 holds what its last iteration matched.
ReCaptured(re, g, st) ==
    IF g = re.g1 THEN [st EXCEPT !.gs = st.at[g], !.ge = st.pos] ELSE st

ReCloseRun(re, txt, g, st) ==
    ReCloseStep(re, txt, g, re.close[g], ReCaptured(re, g, st),
                ReQuantOf(re, re.close[g]), st.cnt[g] + 1)

\* The pattern from token g on matches txt from the offset of st on: the
\* state at the end of the match, or ReFail.
ReRun(re, txt, g, st) ==
    IF g > re.n THEN (IF st.pos > st.floor THEN ReDone(st) ELSE ReFail)
    ELSE CASE re.ts[g].t = "atom" ->
                 IF g < re.n /\ re.ts[g + 1].t = "quant"
                 THEN ReAtomRun(re, txt, g, st, re.ts[g + 1])
                 ELSE IF st.pos < Len(txt) /\ ReChar(re.ts[g], txt[st.pos + 1], re.fold)
                 THEN ReRun(re, txt, g + 1, [st EXCEPT !.pos = st.pos + 1])
                 ELSE ReFail
           [] re.ts[g].t \in ReGroupTokens ->
                 ReGroupRun(re, txt, g, st, ReQuantOf(re, re.close[g]))
           [] re.ts[g].t \in {"alt", "close"} -> ReCloseRun(re, txt, re.group[g], st)
           [] re.ts[g].t \in {"flag", "quant"} -> ReRun(re, txt, g + 1, st)
           [] OTHER ->
                 IF ReAssert(re.ts[g].t, txt, st.pos, re.multiline)
                 THEN ReRun(re, txt, g + 1, st)
                 ELSE ReFail

\* The match that begins at the least of the offsets lo..hi at which one
\* begins.
RECURSIVE ReScanRange(_, _, _, _)
ReScanRange(re, txt, lo, hi) ==
    IF lo = hi THEN ReRun(re, txt, 1, ReState(re, lo))
    ELSE ReOr(ReScanRange(re, txt, lo, (lo + hi) \div 2),
              ReScanRange(re, txt, (lo + hi) \div 2 + 1, hi))

\* The leftmost match from offset start on.
ReScan(re, txt, start) ==
    IF start > Len(txt) THEN ReFail ELSE ReScanRange(re, txt, start, Len(txt))

\* What re.search gives: status "error" when re.compile raises re.error,
\* "unsupported" for a pattern outside the modelled syntax; else whether
\* there is a match, its span, whether the pattern has a group 1 and what
\* the group holds, None when it took no part in the match.
ReMatch(status, ts, txt, m) ==
    [status |-> status, found |-> m.ok, start |-> m.start, end |-> m.pos,
     has_group |-> \E k \in DOMAIN ts : ts[k].t = "open",
     group1 |-> IF m.ok /\ m.gs >= 0 THEN SubSeq(txt, m.gs + 1, m.ge) ELSE PyNone]

ReSearchTokens(ts, txt, multiline) ==
    IF ~ReModelled(ts) THEN ReMatch("unsupported", ts, txt, ReFail)
    ELSE IF ~ReValid(ts) THEN ReMatch("error", ts, txt, ReFail)
    ELSE ReMatch("ok", ts, txt, ReScan(ReContext(ts, multiline), txt, 0))

\* re.search(pattern, txt)
ReSearch(pattern, txt) == ReSearchTokens(ReTokens(pattern), txt, FALSE)

\* re.search(pattern, txt, re.MULTILINE)
ReSearchMultiline(pattern, txt) == ReSearchTokens(ReTokens(pattern), txt, TRUE)

\* What leaves extract_val instead of a value: m.group(1) of a match whose
\* pattern has no group raises IndexError; .strip() of a group that took no
\* part in the match raises AttributeError; re.search raises re.error on a
\* pattern re.compile rejects.
NoSuchGroup == <<"<IndexError>">>

NoneGroup == <<"<AttributeError>">>

ReError == <<"<re.error>">>

NotModelled == <<"<not modelled>">>

\* The exception a value of extract_val stands for; "none" for a value.
Raised(v) ==
    CASE v = NoSuchGroup -> "IndexError"
      [] v = NoneGroup -> "AttributeError"
      [] v = ReError -> "re.error"
      [] v = NotModelled -> "not modelled"
      [] OTHER -> "none"

\* The first exception among the values, in order.
RECURSIVE FirstRaised(_)
FirstRaised(values) ==
    IF values = <<>> THEN "none"
    ELSE IF Raised(Head(values)) # "none" THEN Raised(Head(values))
    ELSE FirstRaised(Tail(values))

ExtractGroup(m) ==
    IF m.status = "error" THEN ReError
    ELSE IF m.status = "unsupported" THEN NotModelled
    ELSE IF ~m.found THEN PyNone
    ELSE IF ~m.has_group THEN NoSuchGroup
    ELSE IF m.group1 = PyNone THEN NoneGroup
    ELSE Strip(m.group1)

\* extract_val, lines 983-988
ExtractVal(pattern, txt) ==
    IF ~HasText(pattern) THEN PyNone
    ELSE ExtractGroup(ReSearch(pattern, txt))

\* The result of a search that was not made.
NoSearch ==
    [status |-> "ok", found |-> FALSE, start |-> 0, end |-> 0,
     has_group |-> FALSE, group1 |-> PyNone]

\* The exception re.search leaves with; "none" when it returns.
SearchRaised(m) ==
    CASE m.status = "error" -> "re.error"
      [] m.status = "unsupported" -> "not modelled"
      [] OTHER -> "none"

\* Lines 1000-1003: the search for the begin of the block.
BlockStartSearch(p_block_start, txt) ==
    IF HasText(p_block_start) THEN ReSearchMultiline(p_block_start, txt) ELSE NoSearch

\* Lines 997-1013: [start_index, end_index] of the line-item block.
BlockStart(p_block_start, txt) ==
    IF BlockStartSearch(p_block_start, txt).found
    THEN BlockStartSearch(p_block_start, txt).end
    ELSE 0

\* text[start:end]
Slice(txt, start, end) == SubSeq(txt, start + 1, end)

\* Lines 1005-1008: the search for the end of the block, in text[start_index:].
BlockEndSearch(p_block_end, txt, start_index) ==
    IF HasText(p_block_end)
    THEN ReSearchMultiline(p_block_end, Slice(txt, start_index, Len(txt)))
    ELSE NoSearch

\* Plausible slip: the end marker is searched in the whole text.
BlockEndWholeText(p_block_end, txt, start_index) ==
    IF BlockEndSearch(p_block_end, txt, 0).found
    THEN BlockEndSearch(p_block_end, txt, 0).start
    ELSE Len(txt)

BlockEnd(p_block_end, txt, start_index) ==
    IF BlockEndSearch(p_block_end, txt, start_index).found
    THEN start_index + BlockEndSearch(p_block_end, txt, start_index).start
    ELSE Len(txt)

\* str.split("\n")
RECURSIVE SplitLines(_)
SplitLines(txt) ==
    IF \A k \in DOMAIN txt : txt[k] # "\n" THEN <<txt>>
    ELSE LET k == CHOOSE j \in DOMAIN txt :
                     txt[j] = "\n" /\ \A h \in 1..(j - 1) : txt[h] # "\n"
         IN <<SubSeq(txt, 1, k - 1)>> \o SplitLines(SubSeq(txt, k + 1, Len(txt)))

\* Lines 1018-1021: "\n" in p_li_desc or "[\\s\\S]" in p_li_desc
Contains(s, sub) ==
    \E k \in 0..(Len(s) - Len(sub)) : SubSeq(s, k + 1, k + Len(sub)) = sub

IsBlockMode(p_li_desc) ==
    \/ Contains(p_li_desc, <<"\n">>)
    \/ Contains(p_li_desc, AnyClass)

ItemFields == {"quantity", "description", "unit", "unit_price", "line_total"}

\* The position of each field in the list, lines 966-978 (1-based here).
ListIndex(k) ==
    CASE k = "invoice_number"        -> 1
      [] k = "invoice_date"          -> 2
      [] k = "invoice_total_amount"  -> 3
      [] k = "order_date"            -> 4
      [] k = "line_item_block_start" -> 5
      [] k = "line_item_block_end"   -> 6
      [] k = "quantity"              -> 7
      [] k = "description"           -> 8
      [] k = "unit"                  -> 9
      [] k = "unit_price"            -> 10
      [] k = "line_total"            -> 11

\* Lines 1073-1085: the item of one stripped line.
LineItem(l, line) == [k \in ItemFields |-> ExtractVal(l[ListIndex(k)], line)]

\* Plausible slip: a line is kept on its description alone.
RECURSIVE LineItemsByDescription(_, _)
LineItemsByDescription(l, lines) ==
    IF lines = <<>> THEN <<>>
    ELSE LET line == Strip(Head(lines))
             item == LineItem(l, line)
             rest == LineItemsByDescription(l, Tail(lines))
         IN IF line = <<>> THEN rest
            ELSE IF Truthy(item.description)
            THEN <<item>> \o rest
            ELSE rest

\* Lines 1068-1085: the items of the block in line mode, in order. A line
\* that is blank after strip() is skipped; an item is kept when its
\* description or its line_total is truthy.
RECURSIVE LineItems(_, _)
LineItems(l, lines) ==
    IF lines = <<>> THEN <<>>
    ELSE LET line == Strip(Head(lines))
             item == LineItem(l, line)
             rest == LineItems(l, Tail(lines))
         IN IF line = <<>> THEN rest
            ELSE IF Truthy(item.description) \/ Truthy(item.line_total)
            THEN <<item>> \o rest
            ELSE rest

\* The offset at which the run of characters of set that begins at offset
\* q ends.
RunEnd(txt, q, set) ==
    CHOOSE r \in q..Len(txt) :
        /\ \A j \in (q + 1)..r : txt[j] \in set
        /\ r = Len(txt) \/ txt[r + 1] \notin set

\* \d+(?:\.\d+)? at offset q: the offset after the number, -1 when there is
\* none (or q is -1).
NumberEnd(txt, q) ==
    IF q < 0 \/ RunEnd(txt, q, DigitChars) = q THEN -1
    ELSE IF /\ RunEnd(txt, q, DigitChars) < Len(txt)
            /\ txt[RunEnd(txt, q, DigitChars) + 1] = "."
            /\ RunEnd(txt, RunEnd(txt, q, DigitChars) + 1, DigitChars)
                  > RunEnd(txt, q, DigitChars) + 1
    THEN RunEnd(txt, RunEnd(txt, q, DigitChars) + 1, DigitChars)
    ELSE RunEnd(txt, q, DigitChars)

\* \s+ at offset q.
SpaceEnd(txt, q) ==
    IF q < 0 \/ RunEnd(txt, q, SpaceChars) = q THEN -1
    ELSE RunEnd(txt, q, SpaceChars)

\* The character c at offset q.
CharEnd(txt, q, c) ==
    IF q < 0 \/ q >= Len(txt) THEN -1
    ELSE IF txt[q + 1] = c THEN q + 1
    ELSE -1

\* The end of item_block_re (lines 1031-1040): a newline, the quantity,
\* the rate and the total followed by "T", at offset q.
ItemTailEnd(txt, q) ==
    CharEnd(txt,
        NumberEnd(txt, SpaceEnd(txt, NumberEnd(txt, SpaceEnd(txt,
            NumberEnd(txt, CharEnd(txt, q, "\n")))))),
        "T")

\* [\s\S]+? from offset b on: the first offset after at least one character
\* at which the item's end matches; -1 when there is none.
BodyEnd(txt, b) ==
    IF \A q \in (b + 1)..Len(txt) : ItemTailEnd(txt, q) < 0 THEN -1
    ELSE CHOOSE q \in (b + 1)..Len(txt) :
            /\ ItemTailEnd(txt, q) >= 0
            /\ \A h \in (b + 1)..(q - 1) : ItemTailEnd(txt, h) < 0

\* item_block_re matched at offset p: the offset its match ends at, -1 when
\* it does not match there. The boundary is the begin of the text, or else
\* a newline.
ItemBlockEnd(txt, p) ==
    IF p = 0 /\ BodyEnd(txt, 0) >= 0 THEN ItemTailEnd(txt, BodyEnd(txt, 0))
    ELSE IF CharEnd(txt, p, "\n") >= 0 /\ BodyEnd(txt, p + 1) >= 0
    THEN ItemTailEnd(txt, BodyEnd(txt, p + 1))
    ELSE -1

\* item_block_re.finditer(block_text) from offset from on: group(0) of the
\* matches, leftmost first, none overlapping another.
RECURSIVE ItemBlocks(_, _)
ItemBlocks(txt, from) ==
    IF \A p \in from..Len(txt) : ItemBlockEnd(txt, p) < 0 THEN <<>>
    ELSE LET p == CHOOSE q \in from..Len(txt) :
                     /\ ItemBlockEnd(txt, q) >= 0
                     /\ \A h \in from..(q - 1) : ItemBlockEnd(txt, h) < 0
         IN <<Slice(txt, p, ItemBlockEnd(txt, p))>>
                \o ItemBlocks(txt, ItemBlockEnd(txt, p))

\* The characters str.splitlines() ends a line at.
LineBreaks ==
    {"\n", "\r", "<vt>", "\f", "<fs>", "<gs>", "<rs>", "<nel>", "<u2028>", "<u2029>"}

\* str.splitlines(): "\r\n" is one line break, and a line break at the end
\* begins no further line.
RECURSIVE Splitlines(_)
Splitlines(txt) ==
    IF txt = <<>> THEN <<>>
    ELSE IF \A k \in DOMAIN txt : txt[k] \notin LineBreaks THEN <<txt>>
    ELSE LET k == CHOOSE j \in DOMAIN txt :
                     txt[j] \in LineBreaks /\ \A h \in 1..(j - 1) : txt[h] \notin LineBreaks
             n == IF txt[k] = "\r" /\ k < Len(txt) /\ txt[k + 1] = "\n" THEN 2 ELSE 1
         IN <<SubSeq(txt, 1, k - 1)>> \o Splitlines(SubSeq(txt, k + n, Len(txt)))

\* "\n".join(lines)
RECURSIVE JoinLines(_)
JoinLines(lines) ==
    IF lines = <<>> THEN <<>>
    ELSE IF Len(lines) = 1 THEN Head(lines)
    ELSE Head(lines) \o <<"\n">> \o JoinLines(Tail(lines))

\* The position of the first line that is not blank; 0 when every line is.
FirstText(lines) ==
    IF \A k \in DOMAIN lines : Strip(lines[k]) = <<>> THEN 0
    ELSE CHOOSE k \in DOMAIN lines :
            /\ Strip(lines[k]) # <<>>
            /\ \A h \in 1..(k - 1) : Strip(lines[h]) = <<>>

\* lines without the line at position k.
WithoutLine(lines, k) ==
    IF k = 0 THEN lines
    ELSE SubSeq(lines, 1, k - 1) \o SubSeq(lines, k + 1, Len(lines))

\* normalize_item_block, lines 94-106: the block without its first line
\* that is not blank.
NormalizeItemBlock(block) ==
    JoinLines(WithoutLine(Splitlines(block), FirstText(Splitlines(block))))

\* Lines 1048-1051: re.sub(r"\s+", " ", raw_desc).strip(), None for a
\* description that is None or empty.
BlockDescription(raw_desc) ==
    IF Raised(raw_desc) # "none" THEN raw_desc
    ELSE IF ~Truthy(raw_desc) THEN PyNone
    ELSE JoinTokens(Tokens(raw_desc))

\* Lines 1043-1059: the item of one normalized block.
BlockItem(l, block) ==
    [k \in ItemFields |->
        IF k = "description" THEN BlockDescription(ExtractVal(l[ListIndex(k)], block))
        ELSE ExtractVal(l[ListIndex(k)], block)]

\* The item built from each match of item_block_re, in order.
BlockItems(l, block_text) ==
    [k \in DOMAIN ItemBlocks(block_text, 0) |->
        BlockItem(l, NormalizeItemBlock(ItemBlocks(block_text, 0)[k]))]

\* The items of block mode, lines 1030-1062: an item is kept when its
\* description or its line_total is truthy.
BlockModeItems(l, block_text) ==
    SelectSeq(BlockItems(l, block_text),
              LAMBDA item : Truthy(item.description) \/ Truthy(item.line_total))

ApplyRaised(e) ==
    [raised |-> e, inv_data |-> <<>>, line_items |-> <<>>,
     start_index |-> 0, end_index |-> 0]

\* The order in which the fields of an item are extracted: lines 1073-1079
\* in line mode, lines 1045 and 1052-1058 in block mode.
LineOrder == <<"quantity", "description", "unit", "unit_price", "line_total">>

BlockOrder == <<"description", "quantity", "unit", "unit_price", "line_total">>

\* The first exception among the fields of the items, in the order of
\* extraction.
RECURSIVE ItemsRaised(_, _)
ItemsRaised(items, order) ==
    IF items = <<>> THEN "none"
    ELSE IF FirstRaised([k \in DOMAIN order |-> Head(items)[order[k]]]) # "none"
    THEN FirstRaised([k \in DOMAIN order |-> Head(items)[order[k]]])
    ELSE ItemsRaised(Tail(items), order)

\* The item of every line that is not blank after strip().
RECURSIVE EveryLineItem(_, _)
EveryLineItem(l, lines) ==
    IF lines = <<>> THEN <<>>
    ELSE IF Strip(Head(lines)) = <<>> THEN EveryLineItem(l, Tail(lines))
    ELSE <<LineItem(l, Strip(Head(lines)))>> \o EveryLineItem(l, Tail(lines))

ApplyReturned(inv_data, items, start_index, end_index) ==
    [raised |-> "none", inv_data |-> inv_data, line_items |-> items,
     start_index |-> start_index, end_index |-> end_index]

\* Lines 1014-1085 on the block text[start_index:end_index].
ApplyBlock(txt, l, inv_data, start_index, end_index) ==
    IF l[8] = PyNone THEN ApplyRaised("TypeError")
    ELSE IF IsBlockMode(l[8])
    THEN IF ItemsRaised(BlockItems(l, Slice(txt, start_index, end_index)),
                        BlockOrder) # "none"
         THEN ApplyRaised(ItemsRaised(BlockItems(l, Slice(txt, start_index, end_index)),
                                      BlockOrder))
         ELSE ApplyReturned(inv_data,
                            BlockModeItems(l, Slice(txt, start_index, end_index)),
                            start_index, end_index)
    ELSE IF ItemsRaised(EveryLineItem(l, SplitLines(Slice(txt, start_index, end_index))),
                        LineOrder) # "none"
    THEN ApplyRaised(ItemsRaised(
             EveryLineItem(l, SplitLines(Slice(txt, start_index, end_index))),
             LineOrder))
    ELSE ApplyReturned(inv_data,
                       LineItems(l, SplitLines(Slice(txt, start_index, end_index))),
                       start_index, end_index)

\* Lines 1005-1008, from the start_index found.
ApplyEnd(txt, l, inv_data, start_index) ==
    IF SearchRaised(BlockEndSearch(l[6], txt, start_index)) # "none"
    THEN ApplyRaised(SearchRaised(BlockEndSearch(l[6], txt, start_index)))
    ELSE ApplyBlock(txt, l, inv_data, start_index, BlockEnd(l[6], txt, start_index))

\* Lines 997-1003, from the invoice fields extracted.
ApplyStart(txt, l, inv_data) ==
    IF SearchRaised(BlockStartSearch(l[5], txt)) # "none"
    THEN ApplyRaised(SearchRaised(BlockStartSearch(l[5], txt)))
    ELSE ApplyEnd(txt, l, inv_data, BlockStart(l[5], txt))

\* The invoice fields in the order lines 990-995 extract them.
InvoiceOrder == <<"invoice_number", "invoice_date", "invoice_total_amount", "order_date">>

\* Lines 966-1085 on the list of patterns l. The result holds the exception
\* that left the call ("none" on return), the two returned values and the
\* locals start_index and end_index. The exception is the first one raised:
\* by the invoice fields in their order, by the search for the begin and
\* for the end of the block, by the mode detection on a description that is
\* None, by the fields of the items in their order.
ApplyFields(txt, l, inv_data) ==
    IF FirstRaised([k \in DOMAIN InvoiceOrder |-> inv_data[InvoiceOrder[k]]]) # "none"
    THEN ApplyRaised(FirstRaised([k \in DOMAIN InvoiceOrder |-> inv_data[InvoiceOrder[k]]]))
    ELSE ApplyStart(txt, l, inv_data)

ApplyList(txt, l) ==
    IF Len(l) # 11 THEN ApplyRaised("ValueError")
    ELSE ApplyFields(txt, l, [k \in RequiredInvoiceKeys |->
                                ExtractVal(l[ListIndex(k)], txt)])

\* The adapter of lines 948-964: the list built from a nested template.
AdapterList(regex_patterns) ==
    LET inv == IF "invoice_level" \in DOMAIN regex_patterns
               THEN regex_patterns["invoice_level"].d ELSE <<>>
        li  == IF "line_item_level" \in DOMAIN regex_patterns
               THEN regex_patterns["line_item_level"].d ELSE <<>>
    IN << GetOr(inv, "invoice_number", <<>>),
          GetOr(inv, "invoice_date", <<>>),
          GetOr(inv, "invoice_total_amount", <<>>),
          GetOr(inv, "order_date", <<>>),
          GetOr(li, "line_item_block_start", <<>>),
          GetOr(li, "line_item_block_end", <<>>),
          GetOr(li, "quantity", <<>>),
          GetOr(li, "description", <<>>),
          GetOr(li, "unit", <<>>),
          GetOr(li, "unit_price", <<>>),
          GetOr(li, "line_total", <<>>) >>

\* apply_regex_extraction on a nested template (a dict) and on a list.
ApplyTemplate(txt, regex_patterns) == ApplyList(txt, AdapterList(regex_patterns))

-----------------------------------------------------------------------------
(* A template stored and read back: save_vendor_regex_template,            *)
(* get_vendor_regex_patterns and apply_regex_extraction                    *)

SampleText == <<"n", "1", " ", "d", "2", " ", "a", "3", " ", "o", "4">>
              \o <<"\n">> \o <<"S">>
              \o <<"\n">> \o <<"q", "5", " ", "x", "6", " ", "u", "7", " ", "p", "8", " ", "t", "9">>
              \o <<"\n">> \o <<" ", "x", "6", " ">>
              \o <<"\n">> \o <<"q", "5", " ", "u", "7">>
              \o <<"\n">> \o <<"E">>
              \o <<"\n">> \o <<"t", "9">>

SampleTemplate ==
    [invoice_number        |-> <<"n", "(", "1", ")">>,
     invoice_date          |-> <<"d", "(", "2", ")">>,
     invoice_total_amount  |-> <<"a", "(", "3", ")">>,
     order_date            |-> <<"o", "(", "4", ")">>,
     line_item_block_start |-> <<"S">>,
     line_item_block_end   |-> <<"E">>,
     quantity              |-> <<"q", "(", "5", ")">>,
     description           |-> <<"x", "(", "6", ")">>,
     unit                  |-> <<"u", "(", "7", ")">>,
     unit_price            |-> <<"p", "(", "8", ")">>,
     line_total            |-> <<"t", "(", "9", ")">>]

\* What an altered field holds: nothing, no key at all, or the patterns of
\* other fields.
AlteredValues == {<<>>, Missing, <<"x", "(", "6", ")">>, <<"t", "(", "9", ")">>}

TemplateWith(f) ==
    [k \in TemplateKeys |-> IF k \in DOMAIN f THEN f[k] ELSE SampleTemplate[k]]

NotApplied == [raised |-> "pending"]

\* The id under which the template is stored.
SampleVendorId == 1

\* apply_regex_extraction(text, template)
RtApplyTemplate ==
    /\ template # <<>>
    /\ by_template = NotApplied
    /\ by_template' = ApplyTemplate(text, template)
    /\ UNCHANGED <<text, template, by_stored>>
    /\ UNCHANGED notApplyVars

\* save_vendor_regex_template(id, template), database.py 33-89
RtSaveTemplate ==
    /\ template # <<>>
    /\ SampleVendorId \notin DOMAIN templates
    /\ templates' = SaveVendorRegexTemplate(templates, SampleVendorId, template)
    /\ UNCHANGED <<vendors, signals, res_pc, lookups, vendor_id, matched_by,
                   phase1, new_regexes, new_vendor_id, llm_calls, llm_response,
                   result, res_error, registry0>>
    /\ UNCHANGED <<segVars, extVars>>

\* apply_regex_extraction(text, get_vendor_regex_patterns(id))
RtApplyStored ==
    /\ SampleVendorId \in DOMAIN templates
    /\ by_stored = NotApplied
    /\ by_stored' = ApplyList(text, GetVendorRegexPatterns(SampleVendorId, templates))
    /\ UNCHANGED <<text, template, by_template>>
    /\ UNCHANGED notApplyVars

InitRoundTrip ==
    /\ text = SampleText
    /\ \E X \in VariedKeySets(MaxAltered) : \E f \in [X -> AlteredValues] :
          template = Phase2Object(TemplateWith(f)).root
    /\ by_template = NotApplied
    /\ by_stored = NotApplied
    /\ SegIdle
    /\ ResolverIdle
    /\ ExtNotApplyIdle

NextRoundTrip ==
    \/ RtApplyTemplate
    \/ RtSaveTemplate
    \/ RtApplyStored

SpecRoundTrip == InitRoundTrip /\ [][NextRoundTrip]_vars

\* The order of the stored list as the claim gives it.
StoredOrder ==
    <<"invoice_number", "invoice_date", "invoice_total_amount", "order_date",
      "line_item_block_start", "line_item_block_end", "quantity", "description",
      "unit", "unit_price", "line_total">>

\* The pattern the nested template holds for field k, "" when it has none.
TemplateField(k) ==
    LET level == IF k \in RequiredInvoiceKeys THEN "invoice_level"
                 ELSE "line_item_level"
    IN IF k \in DOMAIN template[level].d THEN template[level].d[k] ELSE <<>>

\* C12: the list stored for a nested template has exactly 11 strings in the
\* order of StoredOrder, and applying the list read back from the registry
\* gives what applying the nested template gives.
C12_StoredListRoundTrip ==
    /\ SampleVendorId \in DOMAIN templates =>
          /\ Len(templates[SampleVendorId]) = 11
          /\ \A n \in 1..11 :
                /\ IsString(templates[SampleVendorId][n])
                /\ templates[SampleVendorId][n] = TemplateField(StoredOrder[n])
    /\ (by_template # NotApplied /\ by_stored # NotApplied) =>
          by_stored = by_template

C12_Witness ==
    /\ by_template # NotApplied
    /\ by_stored = by_template
    /\ by_stored.raised = "none"
    /\ by_stored.inv_data.invoice_number = <<"1">>
    /\ Len(by_stored.line_items) = 2
    /\ by_stored.line_items[1].quantity = <<"5">>
    /\ TemplateField("unit") = <<>>
    /\ "unit" \notin DOMAIN template["line_item_level"].d

-----------------------------------------------------------------------------
(* _parse_currency_amount: src/src/processing/build_dataframe.py 170-213.  *)
(* A float is the decimal number n / 10^k with no trailing zero digit; the  *)
(* amounts of the model are short decimal strings, on which float() is     *)
(* exact up to that reading.                                               *)

\* The characters removed by the re.sub of line 190: the euro, dollar, pound
\* and yen signs (and whitespace). The three non-ASCII signs are written by
\* name; each is one character.
CurrencySymbols == {"<euro>", "$", "<pound>", "<yen>"}

NoAmount == [kind |-> "none"]

AmountPending == [kind |-> "pending"]

\* The float n / 10^k, written without trailing zeros.
RECURSIVE Decimal(_, _)
Decimal(n, k) ==
    IF k > 0 /\ n % 10 = 0 THEN Decimal(n \div 10, k - 1)
    ELSE [kind |-> "float", n |-> n, k |-> k]

\* float(s) for s over digits, '.', ',' and letters other than those of
\* "inf", "nan" and exponents: digits with at most one '.', at least one
\* digit; anything else raises ValueError.
FloatError == [kind |-> "ValueError"]

PyFloat(s) ==
    LET dots == {j \in DOMAIN s : s[j] = "."} IN
    IF \/ \E j \in DOMAIN s : s[j] \notin DigitChars \cup {"."}
       \/ Cardinality(dots) > 1
       \/ DigitsOf(s) = <<>>
    THEN FloatError
    ELSE Decimal(NatOf(DigitsOf(s)),
                 IF dots = {} THEN 0 ELSE Len(s) - (CHOOSE j \in dots : TRUE))

\* str.replace(old, new) and str.replace(old, '') for one character.
ReplaceChar(s, old, new) == [j \in DOMAIN s |-> IF s[j] = old THEN new ELSE s[j]]

RemoveChar(s, old) == SelectSeq(s, LAMBDA c : c # old)

\* str.rfind(c): the last offset of c, -1 when absent.
RFind(s, c) ==
    IF \E j \in DOMAIN s : s[j] = c
    THEN (CHOOSE j \in DOMAIN s : s[j] = c /\ \A h \in (j + 1)..Len(s) : s[h] # c) - 1
    ELSE -1

\* Plausible slip: the period is always the decimal separator.
ParseCurrencyAmountPeriodDecimal(raw) ==
    IF ~Truthy(raw) THEN NoAmount
    ELSE LET cleaned == RemoveChar(SelectSeq(raw,
                            LAMBDA c : c \notin CurrencySymbols \cup SpaceChars), ",")
         IN IF PyFloat(cleaned) = FloatError THEN NoAmount ELSE PyFloat(cleaned)

\* _parse_currency_amount(amount_str), lines 186-213
ParseCurrencyAmount(raw) ==
    IF ~Truthy(raw) THEN NoAmount
    ELSE LET stripped == SelectSeq(raw,
                            LAMBDA c : c \notin CurrencySymbols \cup SpaceChars)
             comma    == RFind(stripped, ",")
             period   == RFind(stripped, ".")
             cleaned  ==
                 IF comma >= 0 /\ period >= 0
                 THEN IF comma > period
                      THEN ReplaceChar(RemoveChar(stripped, "."), ",", ".")
                      ELSE RemoveChar(stripped, ",")
                 ELSE IF comma >= 0
                 THEN IF Len(stripped) - (comma + 1) = 2
                      THEN ReplaceChar(stripped, ",", ".")
                      ELSE RemoveChar(stripped, ",")
                 ELSE stripped
         IN IF PyFloat(cleaned) = FloatError THEN NoAmount ELSE PyFloat(cleaned)

\* _clean_quantity(val), lines 157-167: float of the text without commas,
\* 0.0 for None and for text float() refuses.
CleanQuantity(val) ==
    IF val = PyNone THEN Decimal(0, 0)
    ELSE LET cleaned == Strip(RemoveChar(val, ","))
         IN IF PyFloat(cleaned) = FloatError THEN Decimal(0, 0) ELSE PyFloat(cleaned)

-----------------------------------------------------------------------------
(* get_line_item_category: src/src/processing/categorization.py            *)

\* Length bound of the descriptions.
MaxDescLen == 3

Uncategorized == <<"U", "n", "c", "a", "t", "e", "g", "o", "r", "i", "z", "e", "d">>

\* re.compile(pattern): what the matcher knows of the pattern.
ReCompile(pattern) == ReContext(ReTokens(pattern), FALSE)

\* The next match pattern.sub and pattern.finditer look for, the one before
\* it having ended at the offset from: the leftmost match from there on; it
\* is not the empty match at from when the one before it was empty.
ReNext(re, txt, from, advance) ==
    IF ~advance THEN ReScan(re, txt, from)
    ELSE IF from > Len(txt) THEN ReFail
    ELSE ReOr(ReRun(re, txt, 1, [ReState(re, from) EXCEPT !.floor = from]),
              ReScan(re, txt, from + 1))

\* pattern.sub(repl, txt) from the offset from on: every match, leftmost
\* first and none overlapping another, gives way to repl.
RECURSIVE ReSubFrom(_, _, _, _, _)
ReSubAt(re, repl, txt, from, m) ==
    IF ~m.ok THEN SubSeq(txt, from + 1, Len(txt))
    ELSE SubSeq(txt, from + 1, m.start) \o repl
            \o ReSubFrom(re, repl, txt, m.pos, m.pos = m.start)

ReSubFrom(re, repl, txt, from, advance) ==
    ReSubAt(re, repl, txt, from, ReNext(re, txt, from, advance))

ReSub(re, repl, txt) == ReSubFrom(re, repl, txt, 0, FALSE)

\* _UNITS, line 20
Units ==
    <<"(", "?", ":", "l", "b", "|", "l", "b", "s", "|", "o", "z", "|", "f",
      "l", "\\", "s", "*", "o", "z", "|", "m", "l", "|", "l", "|", "g", "|",
      "k", "g", "|", "e", "a", "|", "c", "t", "|", "p", "c", "s", "?", "|",
      "p", "a", "c", "k", "|", "c", "a", "s", "e", "|", "c", "s", "|", "b",
      "n", "|", "b", "a", "g", ")">>

\* _NUM, line 21
Num ==
    <<"\\", "d", "+", "(", "?", ":", "[", ".", ",", "]", "\\", "d", "+", ")",
      "?">>

\* The pattern of _SIZE_BLOCK_RE, lines 24-38, as re.VERBOSE reads it: the
\* blanks, the line ends and the comments are no part of it, and the flag
\* (?ix) leaves IGNORECASE. The sign of multiplication is written by name.
SizeBlockPattern ==
    <<"(", "?", "i", ")", "\\", "b", "(">>
        \o Num \o <<"\\", "s", "*", "(", "?", ":", "x", "|", "<times>", ")", "\\", "s", "*">>
        \o Num \o <<"\\", "s", "*", "(", "?", ":">> \o Units \o <<")", "?">>
        \o <<"|">>
        \o Num \o <<"\\", "s", "*", "(", "?", ":", "-", "\\", "s", "*">> \o Num
        \o <<")", "?", "\\", "s", "*", "(", "?", ":">> \o Units \o <<")">>
        \o <<"|">>
        \o <<"\\", "#", "\\", "d", "+">>
        \o <<"|">>
        \o <<"\\", "b">> \o Units \o <<"\\", "b">>
        \o <<")", "\\", "b">>

SizeBlockRe == ReCompile(SizeBlockPattern)

\* _SPECIAL_LINES, lines 41-45
SpecialLines ==
    { <<"t", "a", "x">>,
      <<"s", "a", "l", "e", "s", " ", "t", "a", "x">>,
      <<"f", "u", "e", "l", " ", "s", "u", "r", "c", "h", "a", "r", "g", "e">> }

\* _PAREN_RE, line 48
ParenRe == ReCompile(<<"\\", "(", "[", "^", ")", "]", "*", "\\", ")">>)

\* _CLEAN_RE, line 51
CleanRe == ReCompile(<<"[", "^", "\\", "w", "\\", "s", "\\", "+", "\\", "&", "]">>)

\* The patterns of lines 69, 81 (with flags=re.IGNORECASE), 88 and 91.
SeparatorRe == ReCompile(<<"[", "_", "\\", "-", "/", "]">>)

PackagingRe ==
    ReCompile(
        <<"(", "?", "i", ")", "\\", "b", "(", "?", ":", "b", "a", "g", "|",
          "p", "a", "c", "k", "|", "c", "a", "s", "e", "|", "b", "o", "x",
          "|", "c", "a", "r", "t", "o", "n", "|", "b", "u", "n", "d", "l",
          "e", ")", "\\", "s", "+", "o", "f", "\\", "b">>)

OfRe == ReCompile(<<"\\", "b", "o", "f", "\\", "b">>)

NumberRe == ReCompile(<<"\\", "b", "\\", "d", "+", "\\", "b">>)

\* The nouns of line 100.
FirstNouns ==
    { <<"o", "n", "i", "o", "n">>,
      <<"t", "o", "m", "a", "t", "o">>,
      <<"c", "u", "c", "u", "m", "b", "e", "r">>,
      <<"h", "e", "r", "b", "s">> }

\* line 61: the stripped non-blank lines of the description, the lines being
\* those of str.splitlines().
NonBlankLines(s) ==
    SelectSeq([j \in DOMAIN Splitlines(s) |-> Strip(Splitlines(s)[j])],
              LAMBDA l : l # <<>>)

IndexError == <<"<IndexError: list index out of range>">>

\* Lines 97-105: the words of s; the first one alone when it is one of the
\* nouns, else all of them joined by single blanks.
FirstNoun(tokens) ==
    IF tokens # <<>> /\ tokens[1] \in FirstNouns THEN tokens[1]
    ELSE JoinTokens(tokens)

\* Lines 77-94: size blocks, packaging phrases, "of", numbers that stand
\* alone and punctuation give way to a blank, in this order.
RemoveNoise(s) ==
    ReSub(CleanRe, <<" ">>,
        ReSub(NumberRe, <<" ">>,
            ReSub(OfRe, <<" ">>,
                ReSub(PackagingRe, <<" ">>,
                    ReSub(SizeBlockRe, <<" ">>, s)))))

\* Lines 72-105, s being the line without parentheses and separators.
CleanLine(s) ==
    IF Strip(s) \in SpecialLines THEN Strip(s)
    ELSE FirstNoun(Tokens(RemoveNoise(s)))

\* Lines 62-69: the line in lower case, parenthesized codes, commas and the
\* separators "_", "-" and "/" replaced by blanks.
NormalizeSeparators(line) ==
    ReSub(SeparatorRe, <<" ">>,
        ReplaceChar(ReSub(ParenRe, <<" ">>, Lower(line)), ",", " "))

\* clean_description, lines 53-105. lines[0] at line 62 raises IndexError
\* when no line is non-blank.
CleanDescription(s) ==
    IF ~Truthy(s) THEN <<>>
    ELSE IF NonBlankLines(s) = <<>> THEN IndexError
    ELSE CleanLine(NormalizeSeparators(NonBlankLines(s)[1]))

\* s.replace(sub, "") for a non-empty sub.
RECURSIVE RemoveSub(_, _)
RemoveSub(s, sub) ==
    IF Len(s) < Len(sub) THEN s
    ELSE IF SubSeq(s, 1, Len(sub)) = sub
    THEN RemoveSub(SubSeq(s, Len(sub) + 1, Len(s)), sub)
    ELSE <<Head(s)>> \o RemoveSub(Tail(s), sub)

\* What model.generate_content(prompt) does at lines 132-133: an answer text
\* (a name, a name in markdown, only a code fence, nothing, "Uncategorized")
\* or an exception. The backtick is written by name; it is one character.
GenerateOutcomes ==
    { [raises |-> FALSE, text |-> <<"F", "o", "o", "d">>],
      [raises |-> FALSE, text |-> <<" ">> \o <<"*", "*", "D", "a", "i", "r", "y", "*", "*">> \o <<"\n">>],
      [raises |-> FALSE, text |-> <<"<backtick>", "<backtick>", "<backtick>">>],
      [raises |-> FALSE, text |-> <<>>],
      [raises |-> FALSE, text |-> Uncategorized],
      [raises |-> TRUE, text |-> <<>>] }

\* Plausible slip: a failed request gives None instead of "Uncategorized".
PredictCategoryWithLlmNoneOnFailure(outcome) ==
    IF outcome.raises THEN PyNone
    ELSE RemoveSub(RemoveSub(Strip(outcome.text), <<"<backtick>", "<backtick>", "<backtick>">>), <<"*", "*">>)

\* predict_category_with_llm, lines 130-141
PredictCategoryWithLlm(outcome) ==
    IF outcome.raises THEN Uncategorized
    ELSE RemoveSub(RemoveSub(Strip(outcome.text), <<"<backtick>", "<backtick>", "<backtick>">>), <<"*", "*">>)

\* get_stored_category, database.py 600-603
GetStoredCategory(lookup, key) ==
    IF key \in DOMAIN lookup THEN lookup[key] ELSE PyNone

\* upsert_item_mapping, database.py 613-619
UpsertItemMapping(lookup, key, value) ==
    [k \in DOMAIN lookup \cup {key} |-> IF k = key THEN value ELSE lookup[k]]

StoreError == <<"<PyMongoError>">>

\* What a registry call of the categorizer can do.
StoreOutcomes == IF store_reachable THEN {"ok"} ELSE {"ok", "fails"}

\* Lines 163-167: the empty description, else clean_description.
CatStart ==
    /\ cat_pc = "start"
    /\ IF ~Truthy(raw_description)
       THEN /\ cat_result' = Uncategorized
            /\ cat_pc' = "done"
            /\ UNCHANGED cleaned_description
       ELSE IF CleanDescription(raw_description) = IndexError
       THEN /\ cat_result' = IndexError
            /\ cat_pc' = "raised"
            /\ UNCHANGED cleaned_description
       ELSE /\ cleaned_description' = CleanDescription(raw_description)
            /\ cat_pc' = "lookup"
            /\ UNCHANGED cat_result
    /\ UNCHANGED <<raw_description, store_reachable, item_lookup_map, categories,
                   existing_categories, predicted_category>>
    /\ UNCHANGED notCatVars

\* Lines 169-172: get_stored_category; the stored category is returned when
\* it is truthy.
CatLookup ==
    /\ cat_pc = "lookup"
    /\ \E outcome \in StoreOutcomes :
         IF outcome = "fails"
         THEN /\ cat_result' = StoreError
              /\ cat_pc' = "raised"
         ELSE IF Truthy(GetStoredCategory(item_lookup_map, cleaned_description))
         THEN /\ cat_result' = GetStoredCategory(item_lookup_map, cleaned_description)
              /\ cat_pc' = "done"
         ELSE /\ cat_pc' = "names"
              /\ UNCHANGED cat_result
    /\ UNCHANGED <<raw_description, store_reachable, item_lookup_map, categories,
                   cleaned_description, existing_categories, predicted_category>>
    /\ UNCHANGED notCatVars

\* Line 176: existing_categories = get_all_category_names()
CatNames ==
    /\ cat_pc = "names"
    /\ \E outcome \in StoreOutcomes :
         IF outcome = "fails"
         THEN /\ cat_result' = StoreError
              /\ cat_pc' = "raised"
              /\ UNCHANGED existing_categories
         ELSE /\ existing_categories' = categories
              /\ cat_pc' = "predict"
              /\ UNCHANGED cat_result
    /\ UNCHANGED <<raw_description, store_reachable, item_lookup_map, categories,
                   cleaned_description, predicted_category>>
    /\ UNCHANGED notCatVars

\* The _id of a category document that import_categories or the Add
\* Category form stored: an ObjectId, not a name.
ObjectIdKey == <<"<ObjectId>">>

\* ", ".join(existing_categories) at line 112 on a list that holds an
\* ObjectId.
JoinError ==
    <<"<TypeError: sequence item 0: expected str instance, ObjectId found>">>

\* Line 179: the prompt is built at line 128, outside the try, and the join
\* of line 112 raises when a key read at line 176 is no str; else the
\* model is asked, and does one of the given things.
CatPredictStep(outcomes) ==
    /\ cat_pc = "predict"
    /\ IF ObjectIdKey \in existing_categories
       THEN /\ cat_result' = JoinError
            /\ cat_pc' = "raised"
            /\ UNCHANGED predicted_category
       ELSE /\ \E outcome \in outcomes :
                  predicted_category' = PredictCategoryWithLlm(outcome)
            /\ cat_pc' = "save"
            /\ UNCHANGED cat_result
    /\ UNCHANGED <<raw_description, store_reachable, item_lookup_map, categories,
                   cleaned_description, existing_categories>>
    /\ UNCHANGED notCatVars

CatPredict == CatPredictStep(GenerateOutcomes)

\* insert_master_category, database.py 605-611: the name is the document's
\* _id; an insert that raises (the name is there already, or the registry
\* cannot be reached) is swallowed.
InsertMasterCategory(names, name, outcome) ==
    IF outcome = "ok" THEN names \cup {name} ELSE names

\* save_category_result, lines 148-156: nothing is saved for "" and
\* "Uncategorized"; otherwise the answer is added to the master list when
\* no name read at line 176 equals it up to case.
CatSaveCategory ==
    /\ cat_pc = "save"
    /\ IF ~Truthy(predicted_category) \/ predicted_category = Uncategorized
       THEN /\ cat_result' = predicted_category
            /\ cat_pc' = "done"
            /\ UNCHANGED categories
       ELSE /\ IF Lower(predicted_category) \in {Lower(c) : c \in existing_categories}
               THEN UNCHANGED categories
               ELSE \E outcome \in StoreOutcomes :
                       categories' = InsertMasterCategory(categories,
                                         predicted_category, outcome)
            /\ cat_pc' = "upsert"
            /\ UNCHANGED cat_result
    /\ UNCHANGED <<raw_description, store_reachable, item_lookup_map,
                   cleaned_description, existing_categories, predicted_category>>
    /\ UNCHANGED notCatVars

\* Lines 159 and 186: upsert_item_mapping stores the answer for the cleaned
\* description, and the answer is returned.
CatUpsertMapping ==
    /\ cat_pc = "upsert"
    /\ \E outcome \in StoreOutcomes :
         IF outcome = "fails"
         THEN /\ cat_result' = StoreError
              /\ cat_pc' = "raised"
              /\ UNCHANGED item_lookup_map
         ELSE /\ item_lookup_map' = UpsertItemMapping(item_lookup_map,
                                        cleaned_description, predicted_category)
              /\ cat_result' = predicted_category
              /\ cat_pc' = "done"
    /\ UNCHANGED <<raw_description, store_reachable, categories,
                   cleaned_description, existing_categories, predicted_category>>
    /\ UNCHANGED notCatVars

\* The name another session's save_category_result adds to the master list.
OtherCategory == <<"f", "o", "o", "d">>

\* Another session's insert_master_category lands while this call is
\* between two of its registry calls.
CatOtherSession ==
    /\ cat_pc \in {"lookup", "names", "predict", "save", "upsert"}
    /\ OtherCategory \notin categories
    /\ categories' = InsertMasterCategory(categories, OtherCategory, "ok")
    /\ UNCHANGED <<raw_description, store_reachable, item_lookup_map, cat_pc,
                   cleaned_description, existing_categories, predicted_category,
                   cat_result>>
    /\ UNCHANGED notCatVars

\* import_categories (scripts/import_csv_data.py 209-227) stores a category
\* document under a new ObjectId while this call is between two of its
\* registry calls. The Add Category form (pages/Database_Controls.py
\* 321-331) does the same insert and then calls insert_master_category.
CatImportCategory ==
    /\ cat_pc \in {"lookup", "names", "predict", "save", "upsert"}
    /\ ObjectIdKey \notin categories
    /\ categories' = categories \cup {ObjectIdKey}
    /\ UNCHANGED <<raw_description, store_reachable, item_lookup_map, cat_pc,
                   cleaned_description, existing_categories, predicted_category,
                   cat_result>>
    /\ UNCHANGED notCatVars

-----------------------------------------------------------------------------
(***************************************************************************)
(* The record builder of src/src/processing/build_dataframe.py:            *)
(* get_structured_data_from_text, _build_invoice_record and                *)
(* _build_line_items_records.  A DataFrame is the sequence of its rows.    *)
(***************************************************************************)

\* Length bound of the raw item lists handed to _build_line_items_records.
MaxItems == 3

\* item.get(key) on a raw item.
ItemGet(item, key) == GetOr(item.d, key, PyNone)

\* isinstance(v, str) for a value read from a raw item.
IsStr(v) == v # PyNone /\ v # Missing

\* A raw item as apply_regex_extraction builds it (vendor_identifier.py
\* 1071-1077): a dict of five fields, each a string or None.
RawItem(description, line_total) ==
    Dict([quantity |-> <<"2">>, description |-> description, unit |-> <<"E", "A">>,
          unit_price |-> PyNone, line_total |-> line_total])

\* Raw items: kept ones, and ones the builder must drop (not a dict, no
\* description key, description None, empty, blank).
RawItemSamples ==
    { RawItem(<<" ", "T", "e", "a", " ">>, <<"4", ".", "0", "0">>),
      RawItem(<<"R", "i", "c", "e">>, PyNone),
      RawItem(PyNone, <<"9", ".", "5", "0">>),
      RawItem(<<>>, <<"9", ".", "5", "0">>),
      RawItem(<<" ", " ">>, PyNone),
      Dict([line_total |-> <<"1", ".", "0", "0">>]),
      NotADict }

\* vendor_context.get("vendor_name", "Unknown")
ContextVendorName(ctx) == GetOr(ctx, "vendor_name", <<"U", "n", "k", "n", "o", "w", "n">>)

\* The line_number written into a record: the position of the raw item in
\* the raw list (enumerate index + 1).
LineNumber(raw_index) == raw_index + 1

\* The dict appended at lines 265-278, with the numbers of lines 253-256.
LineItemRecord(item, description, category, ctx, raw_index) ==
    [invoice_id |-> PyNone,
     vendor_name |-> ContextVendorName(ctx),
     category |-> category,
     quantity |-> CleanQuantity(ItemGet(item, "quantity")),
     unit |-> ItemGet(item, "unit"),
     description |-> description,
     unit_price |-> ParseCurrencyAmount(ItemGet(item, "unit_price")),
     line_total |-> ParseCurrencyAmount(ItemGet(item, "line_total")),
     line_number |-> LineNumber(raw_index)]

\* Plausible slip: a blank description is not dropped.
DroppedUnlessBlank(item) ==
    \/ ~item.isdict
    \/ ~IsStr(ItemGet(item, "description"))

\* The raw item is skipped by the checks of lines 242-251.
Dropped(item) ==
    \/ ~item.isdict
    \/ ~IsStr(ItemGet(item, "description"))
    \/ Strip(ItemGet(item, "description")) = <<>>

\* The locals of get_line_item_category when no call of it is in progress.
CategorizerAtRest ==
    /\ raw_description = <<>>
    /\ cat_pc = "idle"
    /\ cleaned_description = <<>>
    /\ existing_categories = {}
    /\ predicted_category = <<>>
    /\ cat_result = <<>>

\* Everything but the variables of the document and of the categorizer.
notDocCatVars == <<segVars, resVars, applyVars, llmVars, batchVars, raceVars,
                   amountVars, saveVars>>

\* One iteration of the loop of _build_line_items_records up to the call of
\* _determine_category (lines 241-261): a raw item without a usable
\* description is skipped, for any other get_line_item_category is entered
\* with the stripped description.
BuildItem ==
    /\ doc_pc = "items"
    /\ idx < Len(extracted_li_data)
    /\ LET item == extracted_li_data[idx + 1]
       IN IF Dropped(item)
          THEN /\ idx' = idx + 1
               /\ UNCHANGED <<category_calls, doc_pc, raw_description, cat_pc,
                              cleaned_description, existing_categories,
                              predicted_category, cat_result>>
          ELSE /\ category_calls' = Append(category_calls,
                                        Strip(ItemGet(item, "description")))
               /\ raw_description' = Strip(ItemGet(item, "description"))
               /\ cat_pc' = "start"
               /\ cleaned_description' = <<>>
               /\ existing_categories' = {}
               /\ predicted_category' = <<>>
               /\ cat_result' = <<>>
               /\ doc_pc' = "category"
               /\ UNCHANGED idx
    /\ UNCHANGED <<extracted_text, doc_error, vendor_context, extracted_inv_data,
                   extracted_li_data, inv_df, line_items, doc_result>>
    /\ UNCHANGED <<store_reachable, item_lookup_map, categories>>
    /\ UNCHANGED notDocCatVars

\* The rest of the iteration (lines 262-278), once get_line_item_category
\* has returned or raised: None raises ValueError, any other value, the
\* empty string included, is the category of the appended record.  An
\* exception leaves _build_line_items_records and, re-raised at line 113,
\* get_structured_data_from_text.
BuildItemRecord ==
    /\ doc_pc = "category"
    /\ cat_pc \in {"done", "raised"}
    /\ IF cat_pc = "raised"
       THEN /\ doc_pc' = "error"
            /\ doc_error' = "CategoryError"
            /\ UNCHANGED <<idx, line_items>>
       ELSE IF cat_result = PyNone
       THEN /\ doc_pc' = "error"
            /\ doc_error' = "ValueError: Could not determine category"
            /\ UNCHANGED <<idx, line_items>>
       ELSE /\ line_items' = Append(line_items,
                   LineItemRecord(extracted_li_data[idx + 1], raw_description,
                       cat_result, vendor_context, idx))
            /\ idx' = idx + 1
            /\ doc_pc' = "items"
            /\ UNCHANGED doc_error
    /\ cat_pc' = "idle"
    /\ UNCHANGED <<extracted_text, vendor_context, extracted_inv_data,
                   extracted_li_data, inv_df, category_calls, doc_result>>
    /\ UNCHANGED <<raw_description, store_reachable, item_lookup_map, categories,
                   cleaned_description, existing_categories, predicted_category,
                   cat_result>>
    /\ UNCHANGED notDocCatVars

\* Lines 283-289 and 117: the loop is over, the DataFrame of the records is
\* returned, and get_structured_data_from_text returns (inv_df, li_df).
BuildReturn ==
    /\ doc_pc = "items"
    /\ idx = Len(extracted_li_data)
    /\ doc_result' = [inv_df |-> inv_df, li_df |-> line_items]
    /\ doc_pc' = "done"
    /\ UNCHANGED <<extracted_text, doc_error, vendor_context, extracted_inv_data,
                   extracted_li_data, inv_df, idx, line_items, category_calls>>
    /\ UNCHANGED notDocVars

\* The metadata arguments of get_structured_data_from_text.
DocMeta ==
    [filename |-> <<"a", ".", "p", "d", "f">>, restaurant_id |-> <<"r", "1">>, text_length |-> 3,
     page_count |-> 1, extraction_timestamp |-> <<"t", "0">>]

\* _build_invoice_record (lines 119-154).
BuildInvoiceRecord(inv_data, ctx, meta) ==
    [filename |-> meta.filename,
     restaurant_id |-> meta.restaurant_id,
     vendor_id |-> GetOr(ctx, "vendor_id", PyNone),
     invoice_number |-> GetOr(inv_data, "invoice_number", PyNone),
     invoice_date |-> GetOr(inv_data, "invoice_date", PyNone),
     invoice_total_amount |-> GetOr(inv_data, "invoice_total_amount", PyNone),
     text_length |-> meta.text_length,
     page_count |-> meta.page_count,
     extraction_timestamp |-> meta.extraction_timestamp,
     order_date |-> GetOr(inv_data, "order_date", PyNone)]

\* A vendor_context as identify_vendor_and_get_regex returns it for a known
\* vendor, and the invoice fields of one extraction.
SampleContext ==
    [vendor_id |-> 1, vendor_name |-> VendorAcme.name, regex |-> StoredTemplate,
     created |-> FALSE]

SampleInvData ==
    [invoice_number |-> <<"7", "7">>, invoice_date |-> PyNone,
     invoice_total_amount |-> <<"1", "3", ".", "5", "0">>, order_date |-> PyNone]

\* _build_line_items_records called at line 106 on every list of up to
\* MaxItems raw items.
\* The registry of the categorizer when a document arrives: reachable or
\* not, "tea" categorized or not, the category "Food" known or not.
DocumentStores ==
    /\ store_reachable \in BOOLEAN
    /\ item_lookup_map \in {<<>>, [k \in {<<"t", "e", "a">>} |-> <<"F", "o", "o", "d">>]}
    /\ categories \in {{}, {<<"F", "o", "o", "d">>}}

InitRecords ==
    /\ SegIdle
    /\ ResolverIdle
    /\ ApplyIdle
    /\ LlmIdle
    /\ BatchIdle
    /\ RaceIdle
    /\ AmountIdle
    /\ SaveIdle
    /\ CategorizerAtRest
    /\ DocumentStores
    /\ extracted_text = <<"d", "o", "c">>
    /\ doc_pc = "items"
    /\ doc_error = "none"
    /\ vendor_context = SampleContext
    /\ extracted_inv_data = SampleInvData
    /\ extracted_li_data \in SeqsUpTo(RawItemSamples, MaxItems)
    /\ inv_df = BuildInvoiceRecord(SampleInvData, SampleContext, DocMeta)
    /\ idx = 0
    /\ line_items = <<>>
    /\ category_calls = <<>>
    /\ doc_result = <<>>

NextRecords ==
    \/ BuildItem
    \/ CatStart
    \/ CatLookup
    \/ CatNames
    \/ CatPredict
    \/ CatSaveCategory
    \/ CatUpsertMapping
    \/ CatOtherSession
    \/ CatImportCategory
    \/ BuildItemRecord
    \/ BuildReturn

SpecRecords == InitRecords /\ [][NextRecords]_vars

\* The raw items the builder keeps, in order.
Kept(raw) == SelectSeq(raw, LAMBDA item : ~Dropped(item))

\* C13: for every list of raw items, the line_number values of the returned
\* records are exactly 1, 2, ..., k in order, k being the number of items
\* kept; dropped items leave no gap.
C13_LineNumbersAreOneToK ==
    doc_pc = "done" =>
        /\ Len(doc_result.li_df) = Len(Kept(extracted_li_data))
        /\ \A k \in DOMAIN doc_result.li_df : doc_result.li_df[k].line_number = k

\* The raw item has no usable description: it is no dict, has no
\* description, has None for it, or has only whitespace in it.
NoDescription(item) ==
    \/ ~item.isdict
    \/ "description" \notin DOMAIN item.d
    \/ item.d["description"] = PyNone
    \/ \A k \in DOMAIN item.d["description"] :
          item.d["description"][k] \in SpaceChars

\* Positions among the first n raw items that have a usable description.
Described(n) ==
    {k \in 1..n : k <= Len(extracted_li_data) /\ ~NoDescription(extracted_li_data[k])}

\* C22: a raw item whose description is missing, not a string or blank is
\* dropped: the categorization collaborator is never called for it and no
\* error comes from it (the categorizer is at work, or has failed, only at
\* an item with a usable description). Every other item the loop has passed
\* has exactly one record, and a returned frame holds exactly one record per
\* such item.
C22_UndescribedItemsDroppedSilently ==
    /\ Len(line_items) = Cardinality(Described(idx))
    /\ \A k \in Described(idx) :
          Cardinality({r \in DOMAIN line_items : line_items[r].line_number = k}) = 1
    /\ \A r \in DOMAIN line_items : line_items[r].line_number \in Described(idx)
    /\ \A c \in DOMAIN category_calls :
          /\ category_calls[c] # <<>>
          /\ category_calls[c] # PyNone
          /\ \E k \in Described(idx + 1) :
                category_calls[c] = Strip(extracted_li_data[k].d["description"])
    /\ Len(category_calls) =
          Cardinality(Described(idx)) +
              (IF doc_pc \in {"category", "error"} THEN 1 ELSE 0)
    /\ doc_pc \in {"category", "error"} => (idx + 1) \in Described(idx + 1)
    /\ doc_pc # "category" => cat_pc = "idle"
    /\ doc_pc = "done" =>
          /\ idx = Len(extracted_li_data)
          /\ Len(doc_result.li_df) = Cardinality(Described(Len(extracted_li_data)))

\* A returned frame of two records built from a list of three raw items whose
\* second has a blank description: one categorization call per record.
C22_Witness ==
    /\ doc_pc = "done"
    /\ Len(extracted_li_data) = 3
    /\ extracted_li_data[2] = RawItem(<<" ", " ">>, PyNone)
    /\ Len(doc_result.li_df) = 2
    /\ Len(category_calls) = 2

-----------------------------------------------------------------------------
(* get_structured_data_from_text *)

\* Plausible slip: only the empty string is refused (not extracted_text).
TextIsEmptyNoStrip(t) == t = <<>>

\* Line 44: not extracted_text.strip()
TextIsEmpty(t) == Strip(t) = <<>>

\* ObjectId() of line 58 for the first document of a batch: an id no vendor
\* of the registry has. The ids are negative numbers, a new one for each
\* document.
TemporaryVendorId == -1

\* Lines 60-76: the generic patterns of the fallback context.
GenericRegex ==
    [invoice_level |->
       [invoice_number |->
            <<"(", "?", ":", "i", "n", "v", "o", "i", "c", "e", "|", "i", "n", "v", ")", "[", "\\", "s", "#", ":", "]", "*", "(", "[", "0", "-", "9", "]", "+", ")">>,
        invoice_date |->
            <<"(", "?", ":", "d", "a", "t", "e", "|", "d", "a", "t", "e", "d", ")", "[", "\\", "s", ":", "]", "*", "(", "\\", "d", "{", "1", ",", "2", "}", "[", "-", "/", "]", "\\", "d", "{", "1", ",", "2", "}", "[", "-", "/", "]", "\\", "d", "{", "2", ",", "4", "}", ")">>,
        invoice_total_amount |->
            <<"(", "?", ":", "t", "o", "t", "a", "l", "|", "a", "m", "o", "u", "n", "t", " ", "d", "u", "e", ")", "[", "\\", "s", ":", "$", "]", "*", "(", "\\", "d", "+", "[", ".", ",", "]", "\\", "d", "{", "2", "}", ")">>,
        order_date |->
            <<>>],
     line_item_level |->
       [line_item_block_start |->
            <<"(", "?", ":", "d", "e", "s", "c", "r", "i", "p", "t", "i", "o", "n", "|", "i", "t", "e", "m", ")">>,
        line_item_block_end |->
            <<"(", "?", ":", "s", "u", "b", "t", "o", "t", "a", "l", "|", "t", "o", "t", "a", "l", ")">>,
        quantity |->
            <<"(", "\\", "d", "+", "\\", ".", "?", "\\", "d", "*", ")">>,
        description |->
            <<"(", "[", "A", "-", "Z", "a", "-", "z", "0", "-", "9", "\\", "s", ",", ".", "-", "]", "+", ")">>,
        unit |->
            <<"(", "E", "A", "|", "L", "B", "|", "C", "S", "|", "G", "A", "L", "|", "B", "O", "X", "|", "P", "K", "G", ")">>,
        unit_price |->
            <<"\\", "$", "?", "(", "\\", "d", "+", "\\", ".", "\\", "d", "{", "2", "}", ")">>,
        line_total |->
            <<"\\", "$", "?", "(", "\\", "d", "+", "\\", ".", "\\", "d", "{", "2", "}", ")">>]]

\* Lines 57-79: the context used when identify_vendor_and_get_regex raised.
FallbackContext(exc) ==
    [vendor_id |-> TemporaryVendorId - batch_idx,
     vendor_name |-> <<"U", "n", "k", "n", "o", "w", "n", " ", "V", "e", "n", "d", "o", "r">>,
     regex |-> GenericRegex,
     identification_error |-> exc]

\* Lines 44-48: blank text is refused; otherwise
\* identify_vendor_and_get_regex is entered.
DocStart ==
    /\ doc_pc = "start"
    /\ IF TextIsEmpty(extracted_text)
       THEN /\ doc_pc' = "error"
            /\ doc_error' = "ValueError: Input text cannot be empty"
            /\ UNCHANGED res_pc
       ELSE /\ doc_pc' = "resolve"
            /\ res_pc' = "start"
            /\ UNCHANGED doc_error
    /\ UNCHANGED <<extracted_text, vendor_context, extracted_inv_data,
                   extracted_li_data, inv_df, idx, line_items, category_calls,
                   doc_result>>
    /\ UNCHANGED <<vendors, templates, signals, lookups, vendor_id, matched_by,
                   phase1, new_regexes, new_vendor_id, llm_calls, llm_response,
                   result, res_error, registry0>>
    /\ UNCHANGED <<segVars, extNotDocVars>>

\* Lines 47-79: identify_vendor_and_get_regex has returned its dict, or has
\* raised and the fallback context replaces it.
DocResolved ==
    /\ doc_pc = "resolve"
    /\ res_pc \in {"done", "error"}
    /\ vendor_context' = IF res_pc = "done" THEN result
                         ELSE FallbackContext(res_error)
    /\ doc_pc' = "apply"
    /\ UNCHANGED <<extracted_text, doc_error, extracted_inv_data,
                   extracted_li_data, inv_df, idx, line_items, category_calls,
                   doc_result>>
    /\ UNCHANGED notDocVars

\* What apply_regex_extraction(text, vendor_context["regex"]) produced for
\* the document: an exception, or invoice fields and a list of raw items.
ExtractionOutcomes ==
    {[raises |-> TRUE, inv_data |-> <<>>, li_data |-> <<>>]} \cup
    {[raises |-> FALSE, inv_data |-> d, li_data |-> l] :
        d \in {SampleInvData, [SampleInvData EXCEPT !.invoice_number = PyNone]},
        l \in {<<>>,
               <<RawItem(<<" ", "T", "e", "a", " ">>, <<"4", ".", "0", "0">>)>>,
               <<RawItem(PyNone, <<"9", ".", "5", "0">>), RawItem(<<"R", "i", "c", "e">>, PyNone)>>,
               <<RawItem(<<" ", "T", "e", "a", " ">>, <<"4", ".", "0", "0">>), RawItem(<<"R", "i", "c", "e">>, PyNone)>>}}

\* Lines 81-98: the template is applied, with one of the given outcomes,
\* and the header record is built.
DocApplyStep(outcomes) ==
    /\ doc_pc = "apply"
    /\ \E out \in outcomes :
         IF out.raises
         THEN /\ doc_pc' = "error"
              /\ doc_error' = "ValueError: Failed to apply regex"
              /\ UNCHANGED <<extracted_inv_data, extracted_li_data, inv_df>>
         ELSE /\ extracted_inv_data' = out.inv_data
              /\ extracted_li_data' = out.li_data
              /\ inv_df' = BuildInvoiceRecord(out.inv_data, vendor_context, DocMeta)
              /\ doc_pc' = "items"
              /\ UNCHANGED doc_error
    /\ UNCHANGED <<extracted_text, vendor_context, idx, line_items,
                   category_calls, doc_result>>
    /\ UNCHANGED notDocVars

DocApply == DocApplyStep(ExtractionOutcomes)

\* Document texts: empty, whitespace only, and with content.
TextSamples == {<<>>, <<" ">>, <<" ", "\n", "\t">>, <<"\f">>, <<"d", "o", "c">>, <<" ", "a", " ">>}

\* get_structured_data_from_text on one document, with a registry that
\* does or does not know the document's vendor.
InitDocument ==
    /\ SegIdle
    /\ ApplyIdle
    /\ LlmIdle
    /\ BatchIdle
    /\ RaceIdle
    /\ AmountIdle
    /\ SaveIdle
    /\ CategorizerAtRest
    /\ DocumentStores
    /\ \E reg \in {[v |-> <<>>, t |-> <<>>],
                   [v |-> <<VendorAcme>>, t |-> <<StoredTemplate>>],
                   [v |-> <<VendorAcme>>, t |-> <<>>]} :
          /\ vendors = reg.v
          /\ templates = reg.t
    /\ signals \in {NoSignals, [NoSignals EXCEPT !.website = <<"A", "C", "M", "E", ".", "c", "o">>]}
    /\ res_pc = "idle"
    /\ registry0 = [vendors |-> vendors, templates |-> templates]
    /\ ResolverLocalsInit
    /\ extracted_text \in TextSamples
    /\ doc_pc = "start"
    /\ doc_error = "none"
    /\ vendor_context = <<>>
    /\ extracted_inv_data = <<>>
    /\ extracted_li_data = <<>>
    /\ inv_df = <<>>
    /\ idx = 0
    /\ line_items = <<>>
    /\ category_calls = <<>>
    /\ doc_result = <<>>

NextDocument ==
    \/ DocStart
    \/ ResSearch
    \/ ResFound
    \/ DerivePhase1
    \/ ResPhase2
    \/ ResCreateVendor
    \/ ResSaveRegex
    \/ ResReturnCreated
    \/ DocResolved
    \/ DocApply
    \/ BuildItem
    \/ CatStart
    \/ CatLookup
    \/ CatNames
    \/ CatPredict
    \/ CatSaveCategory
    \/ CatUpsertMapping
    \/ BuildItemRecord
    \/ BuildReturn

SpecDocument == InitDocument /\ [][NextDocument]_vars

\* The categorizer gave no category for an item: it returned None or raised.
CategoryFailed ==
    doc_error \in {"ValueError: Could not determine category", "CategoryError"}

\* C14: when the categorizer yields no category for one line item, the
\* failure is confined to that item: the document is not aborted, and its
\* header record and its other line items are returned.
C14_CategoryFailureConfinedToItem ==
    CategoryFailed =>
        /\ doc_pc # "error"
        /\ doc_pc = "done" =>
              /\ doc_result.inv_df = inv_df
              /\ Len(doc_result.li_df) = Len(category_calls) - 1

\* The resolver was never entered and the registry is as it was.
ResolverUntouched ==
    /\ res_pc = "idle"
    /\ lookups = <<>>
    /\ llm_calls = 0
    /\ vendors = registry0.vendors
    /\ templates = registry0.templates

\* C17: empty or whitespace-only text is refused with an error before vendor
\* resolution: no signal search, registry lookup, language-model call or
\* registry write happens for it.
C17_BlankTextRejectedBeforeResolution ==
    IsBlank(extracted_text) =>
        /\ doc_pc \in {"start", "error"}
        /\ doc_pc = "error" => doc_error = "ValueError: Input text cannot be empty"
        /\ ResolverUntouched
        /\ doc_result = <<>>

C17_Witness ==
    /\ extracted_text = <<" ", "\n", "\t">>
    /\ doc_pc = "error"
    /\ vendors # <<>>

-----------------------------------------------------------------------------
(***************************************************************************)
(* call_llm_api of src/src/processing/vendor_identifier.py: one call, with *)
(* the behaviour of the model service at each request given in advance.    *)
(***************************************************************************)

\* Line 306.
max_retries == 3

\* Line 307.
base_wait == 30

\* What one generate_content request can do: answer with text that is the
\* JSON of an object, JSON of something else, or not JSON at all; or raise
\* ResourceExhausted (the rate-limit response), a network error, an
\* authentication error.
ServiceOutcomes ==
    {"json object", "json other", "not json", "ResourceExhausted",
     "ServiceUnavailable", "PermissionDenied"}

\* Plausible slip: the wait doubles (30, 60, 120).
WaitTimeDoubling(attempt_index) == base_wait * 2 ^ attempt_index

\* Line 320.
WaitTime(attempt_index) == base_wait * (attempt_index + 1)

\* parse_llm_json(response.text) (lines 724-782): the parsed value, or
\* ValueError when no JSON can be extracted.
ParseLlmJson(answer) ==
    CASE answer = "json object" -> [kind |-> "returned", value |-> "dict"]
      [] answer = "json other"  -> [kind |-> "returned", value |-> "not a dict"]
      [] answer = "not json"    -> [kind |-> "raised", value |-> "ValueError"]

\* Lines 303-304 and 40-48: without an API key the call raises before any
\* request.
LlmSetup ==
    /\ llm_pc = "setup"
    /\ IF api_key_set
       THEN /\ llm_pc' = "attempt"
            /\ UNCHANGED llm_result
       ELSE /\ llm_pc' = "raised"
            /\ llm_result' = [kind |-> "raised", value |-> "EnvironmentError"]
    /\ UNCHANGED <<api_key_set, service, attempt, requests, waits>>
    /\ UNCHANGED notLlmVars

\* One iteration of the loop of lines 309-327: the request, then the return,
\* the sleep, or the re-raise.
LlmAttempt ==
    /\ llm_pc = "attempt"
    /\ attempt < max_retries
    /\ LET outcome == service[attempt + 1] IN
        /\ requests' = Append(requests, outcome)
        /\ IF outcome = "ResourceExhausted"
           THEN /\ waits' = Append(waits, WaitTime(attempt))
                /\ attempt' = attempt + 1
                /\ UNCHANGED <<llm_pc, llm_result>>
           ELSE IF outcome \in {"ServiceUnavailable", "PermissionDenied"}
           THEN /\ llm_pc' = "raised"
                /\ llm_result' = [kind |-> "raised", value |-> outcome]
                /\ UNCHANGED <<waits, attempt>>
           ELSE /\ llm_pc' = ParseLlmJson(outcome).kind
                /\ llm_result' = ParseLlmJson(outcome)
                /\ UNCHANGED <<waits, attempt>>
    /\ UNCHANGED <<api_key_set, service>>
    /\ UNCHANGED notLlmVars

\* Line 330: the loop ran out of attempts.
LlmGiveUp ==
    /\ llm_pc = "attempt"
    /\ attempt >= max_retries
    /\ llm_pc' = "raised"
    /\ llm_result' = [kind |-> "raised", value |-> "RuntimeError"]
    /\ UNCHANGED <<api_key_set, service, attempt, requests, waits>>
    /\ UNCHANGED notLlmVars

InitLlm ==
    /\ SegIdle
    /\ ResolverIdle
    /\ ExtNotLlmIdle
    /\ api_key_set \in BOOLEAN
    /\ service \in [1..max_retries -> ServiceOutcomes]
    /\ llm_pc = "setup"
    /\ attempt = 0
    /\ requests = <<>>
    /\ waits = <<>>
    /\ llm_result = [kind |-> "none"]

NextLlm ==
    \/ LlmSetup
    \/ LlmAttempt
    \/ LlmGiveUp

\* The call is one thread of control: while a step is possible, it is taken.
SpecLlm == InitLlm /\ [][NextLlm]_vars /\ WF_vars(NextLlm)

LlmFinished == llm_pc \in {"returned", "raised"}

\* What holds of a call of call_llm_api at every moment.
LlmRetryDiscipline ==
    \* a further request is made only after a rate-limit response
    /\ \A k \in 1..(Len(requests) - 1) : requests[k] = "ResourceExhausted"
    \* it waits 30*k seconds after the k-th rate-limited request
    /\ Len(waits) = Cardinality({k \in DOMAIN requests : requests[k] = "ResourceExhausted"})
    /\ \A k \in DOMAIN waits : waits[k] = 30 * k
    \* at most 3 requests, and after 3 rate-limit responses an error
    /\ Len(requests) <= 3
    /\ (LlmFinished /\ Len(waits) = 3) => llm_result.kind = "raised"
    \* any other failure is raised as it is, with no further request
    /\ (requests # <<>> /\ Last(requests) \in {"ServiceUnavailable", "PermissionDenied"})
          => llm_result = [kind |-> "raised", value |-> Last(requests)]
    /\ (requests # <<>> /\ Last(requests) = "not json")
          => llm_result = [kind |-> "raised", value |-> "ValueError"]

\* C15: call_llm_api makes a further attempt only after a rate-limit
\* response, waits 30*k seconds after the k-th rate-limited attempt, makes
\* at most 3 attempts and then fails with an error; any other failure is
\* raised at once with no further attempt; the call always terminates.
C15_RetryOnlyOnRateLimitAndTerminates ==
    /\ []LlmRetryDiscipline
    /\ <>LlmFinished

C15_Witness ==
    /\ llm_result = [kind |-> "raised", value |-> "RuntimeError"]
    /\ waits = <<30, 60, 90>>
    /\ Len(requests) = 3

-----------------------------------------------------------------------------
(***************************************************************************)
(* Two calls of identify_vendor_and_get_regex running at the same time on  *)
(* one registry.  The resolver variables hold the locals of the call that  *)
(* is running; the locals of the other call are parked.  A call can be     *)
(* preempted between any two of its steps, each registry operation and     *)
(* each model request being one step.                                      *)
(***************************************************************************)

\* The locals of the running call.
CallLocals ==
    [signals |-> signals, res_pc |-> res_pc, lookups |-> lookups,
     vendor_id |-> vendor_id, matched_by |-> matched_by, phase1 |-> phase1,
     new_regexes |-> new_regexes, new_vendor_id |-> new_vendor_id,
     llm_calls |-> llm_calls, llm_response |-> llm_response,
     result |-> result, res_error |-> res_error]

\* The locals of a call that has not made its first step.
FreshCall(sig) ==
    [signals |-> sig, res_pc |-> "start", lookups |-> <<>>,
     vendor_id |-> 0, matched_by |-> "none",
     phase1 |-> [vendor_master_data |-> PyNone],
     new_regexes |-> <<>>, new_vendor_id |-> 0,
     llm_calls |-> 0, llm_response |-> NoLlmResponse,
     result |-> NoResult, res_error |-> "none"]

\* The running call is preempted and the other call, not yet finished,
\* goes on.
Switch ==
    /\ running \in {1, 2}
    /\ parked.res_pc \notin {"done", "error"}
    /\ running' = 3 - running
    /\ parked' = CallLocals
    /\ signals' = parked.signals
    /\ res_pc' = parked.res_pc
    /\ lookups' = parked.lookups
    /\ vendor_id' = parked.vendor_id
    /\ matched_by' = parked.matched_by
    /\ phase1' = parked.phase1
    /\ new_regexes' = parked.new_regexes
    /\ new_vendor_id' = parked.new_vendor_id
    /\ llm_calls' = parked.llm_calls
    /\ llm_response' = parked.llm_response
    /\ result' = parked.result
    /\ res_error' = parked.res_error
    /\ UNCHANGED <<vendors, templates, registry0>>
    /\ UNCHANGED <<segVars, extNotRaceVars>>

\* Phase 2 answers with a valid template, or the request fails.
RacePhase2 == Phase2Step({Phase2Object(BaseCandidate), LlmRaises})

\* The signals of documents of the vendor Rust, which the registry does not
\* know: none, one, or two of them (the search of a document with two makes
\* two lookups, and the other call's insert can land between them).
RustSignals ==
    {NoSignals,
     [NoSignals EXCEPT !.website = <<"r", "u", "s", "t", ".", "i", "o">>],
     [NoSignals EXCEPT !.vendor_email_id = <<"h", "i", "@", "r", "u", "s", "t", ".", "i", "o">>],
     [NoSignals EXCEPT !.website = <<"r", "u", "s", "t", ".", "i", "o">>,
                       !.vendor_email_id = <<"h", "i", "@", "r", "u", "s", "t", ".", "i", "o">>]}

InitRace ==
    /\ SegIdle
    /\ ExtNotRaceIdle
    /\ \E reg \in {[v |-> <<>>, t |-> <<>>],
                   [v |-> <<VendorBolt>>, t |-> <<StoredTemplate>>]} :
          /\ vendors = reg.v
          /\ templates = reg.t
    /\ registry0 = [vendors |-> vendors, templates |-> templates]
    /\ signals \in RustSignals
    /\ res_pc = "start"
    /\ ResolverLocalsInit
    /\ running = 1
    /\ \E sig \in RustSignals : parked = FreshCall(sig)

NextRace ==
    \/ Switch
    \/ ResSearch
    \/ ResFound
    \/ DerivePhase1
    \/ RacePhase2
    \/ ResCreateVendor
    \/ ResSaveRegex
    \/ ResReturnCreated

SpecRace == InitRace /\ [][NextRace]_vars

\* Both calls have made their registry search and no vendor has been
\* inserted yet.
RaceWindow ==
    /\ res_pc \notin {"idle", "start"}
    /\ parked.res_pc \notin {"idle", "start"}
    /\ vendors = registry0.vendors

\* Neither call matched a vendor: both are in CASE B.
NeitherMatched == vendor_id = 0 /\ parked.vendor_id = 0

\* Both calls returned after a successful insert and template save.
BothPersisted ==
    /\ res_pc = "done" /\ result.vendor_id # 0
    /\ parked.res_pc = "done" /\ parked.result.vendor_id # 0

\* The registry holds two new vendor records of one identity, each with its
\* own template.
DuplicatePair ==
    LET a == result.vendor_id
        b == parked.result.vendor_id
    IN /\ a # b
       /\ DOMAIN vendors \ DOMAIN registry0.vendors = {a, b}
       /\ vendors[a].name = vendors[b].name
       /\ {a, b} \subseteq DOMAIN templates
       /\ Len(templates[a]) = 11 /\ Len(templates[b]) = 11

\* C18: when two calls for documents of the same unknown vendor interleave
\* so that both registry searches complete before either vendor insert,
\* both calls derive, and when both persist the registry ends with two
\* vendor records, each with its own template, for the same vendor.
C18_UnguardedCreationDuplicates ==
    [](RaceWindow => [](NeitherMatched /\ (BothPersisted => DuplicatePair)))

C18_Witness ==
    /\ signals.website = <<"r", "u", "s", "t", ".", "i", "o">>
    /\ parked.signals.website = <<"r", "u", "s", "t", ".", "i", "o">>
    /\ BothPersisted
    /\ DuplicatePair

-----------------------------------------------------------------------------
(* What identify_vendor_and_get_regex leaves alone *)

\* Every vendor record and template that existed when the call began is
\* still there and is the same.
ExistingRecordsKept ==
    /\ \A k \in DOMAIN registry0.vendors :
          k \in DOMAIN vendors /\ vendors[k] = registry0.vendors[k]
    /\ \A k \in DOMAIN registry0.templates :
          k \in DOMAIN templates /\ templates[k] = registry0.templates[k]

\* What the call added is at most one vendor, under an id that did not
\* exist, and one template keyed by that id.
OnlyNewVendorAdded ==
    LET new_vendors == DOMAIN vendors \ DOMAIN registry0.vendors
        new_templates == DOMAIN templates \ DOMAIN registry0.templates
    IN /\ new_vendors \subseteq {new_vendor_id}
       /\ new_templates \subseteq new_vendors

\* C19: the call never modifies or deletes a vendor record or a template
\* that existed before it: on a match it writes nothing and asks the model
\* nothing; on derivation it only inserts a new vendor and a template keyed
\* by the new vendor's id.
C19_ExistingRegistryNeverModified ==
    /\ ExistingRecordsKept
    /\ OnlyNewVendorAdded
    /\ vendor_id # 0 => (RegistryUnchanged /\ llm_calls = 0)

C19_Witness ==
    /\ res_pc = "done"
    /\ result.created
    /\ registry0.templates # <<>>
    /\ DOMAIN templates \ DOMAIN registry0.templates = {new_vendor_id}
    /\ DOMAIN vendors \ DOMAIN registry0.vendors = {new_vendor_id}

-----------------------------------------------------------------------------
(* The line-item block: apply_regex_extraction on short texts with every   *)
(* placement of the two markers                                            *)

\* Length bound of the texts.
MaxTextLen == 4

\* The characters of the texts: the two marker letters and a blank.
BlockAlphabet == {"S", "E", " "}

\* Start and end markers: None, empty, blank, one letter, two letters.
StartMarkers == {PyNone, <<>>, <<" ">>, <<"S">>, <<"S", "E">>}

EndMarkers == {PyNone, <<>>, <<" ">>, <<"E">>, <<"E", "S">>}

\* A stored list with the given markers at indices 4 and 5.
MarkerList(p_block_start, p_block_end) ==
    << SampleTemplate.invoice_number, SampleTemplate.invoice_date,
       SampleTemplate.invoice_total_amount, SampleTemplate.order_date,
       p_block_start, p_block_end,
       SampleTemplate.quantity, SampleTemplate.description,
       SampleTemplate.unit, SampleTemplate.unit_price,
       SampleTemplate.line_total >>

InitBlock ==
    /\ SegIdle
    /\ ExtNotApplyIdle
    /\ vendors = <<>>
    /\ \E ps \in StartMarkers : \E pe \in EndMarkers :
          templates = <<MarkerList(ps, pe)>>
    /\ signals = NoSignals
    /\ res_pc = "idle"
    /\ registry0 = [vendors |-> <<>>, templates |-> <<>>]
    /\ ResolverLocalsInit
    /\ text \in SeqsUpTo(BlockAlphabet, MaxTextLen)
    /\ template = <<>>
    /\ by_template = NotApplied
    /\ by_stored = NotApplied

NextBlock == RtApplyStored

SpecBlock == InitBlock /\ [][NextBlock]_vars

\* The marker is None, empty or blank.
MarkerBlank(p) == p = PyNone \/ \A k \in DOMAIN p : p[k] \in SpaceChars

\* The marker's text occurs in txt at offset k.
OccursAt(p, txt, k) ==
    /\ k >= 0
    /\ k + Len(p) <= Len(txt)
    /\ \A j \in 1..Len(p) : txt[k + j] = p[j]

\* Offsets of the occurrences of the marker at or after offset from.
OccurrencesFrom(p, txt, from) == {k \in from..Len(txt) : OccursAt(p, txt, k)}

Least(S) == CHOOSE k \in S : \A h \in S : k <= h

\* C20: the block is text[start:end] with 0 <= start <= end <= len(text);
\* start is the end of the first start-marker match (0 if the marker is
\* blank or does not match); end is the beginning of the first end-marker
\* match at or after start (len(text) if the marker is blank or has no
\* match there); end-marker occurrences before start are ignored.
C20_BlockBetweenMarkers ==
    by_stored # NotApplied =>
        LET ps == templates[SampleVendorId][5]
            pe == templates[SampleVendorId][6]
            start == by_stored.start_index
            end == by_stored.end_index
        IN /\ by_stored.raised = "none"
           /\ 0 <= start /\ start <= end /\ end <= Len(text)
           /\ start = IF MarkerBlank(ps) \/ OccurrencesFrom(ps, text, 0) = {}
                      THEN 0
                      ELSE Least(OccurrencesFrom(ps, text, 0)) + Len(ps)
           /\ end = IF MarkerBlank(pe) \/ OccurrencesFrom(pe, text, start) = {}
                    THEN Len(text)
                    ELSE Least(OccurrencesFrom(pe, text, start))

\* An end marker occurs before the start marker and again after it.
C20_Witness ==
    /\ text = <<"E", "S", "E">>
    /\ templates[SampleVendorId][5] = <<"S">>
    /\ templates[SampleVendorId][6] = <<"E">>
    /\ by_stored # NotApplied
    /\ by_stored.start_index = 2
    /\ by_stored.end_index = 2

-----------------------------------------------------------------------------
(* Line mode: apply_regex_extraction on texts of a few short lines          *)

\* Bound on the number of lines of a text.
MaxLines == 4

\* The lines a text is made of: a description, a total, the start marker,
\* a blank line, a padded line carrying both, an empty line.
LineSamples == {<<"x">>, <<"t">>, <<"S">>, <<" ">>, <<" ", "x", "t">>, <<>>}

\* The lines of a text whose items take several lines: a description, a
\* total, and the three numbers that end an item.
BlockLineSamples == {<<"x">>, <<"t">>, <<"1", " ", "2", " ", "3", "T">>}

\* Description patterns: one group, blank, no group.
DescriptionPatterns == {<<"(", "x", ")">>, <<" ">>, <<"x">>}

\* Description patterns that select block mode: one holds a newline, the
\* other the class [\s\S].
BlockDescriptionPatterns ==
    {<<"(", "x", ")", "\n">>, <<"(", "x", ")">> \o AnyClass}

\* Total patterns: one group, None.
TotalPatterns == {<<"(", "t", ")">>, PyNone}

\* A text of two items of three lines each, and a stored list for it: the
\* description names the article and selects block mode, the total is the
\* decimal number before the "T".
ItemizedText == <<"h", "d", "r">>
              \o <<"\n">> \o <<"w", "i", "d", "g", "e", "t">>
              \o <<"\n">> \o <<"2", " ", "3", ".", "5", "0", " ", "7", ".", "0", "0", "T">>
              \o <<"\n">> \o <<"h", "d", "r">>
              \o <<"\n">> \o <<"b", "o", "l", "t">>
              \o <<"\n">> \o <<"1", " ", "1", ".", "0", "0", " ", "1", ".", "0", "0", "T">>

ItemizedList ==
    << <<>>, <<>>, <<>>, <<>>, <<>>, <<>>, <<>>,
       <<"(", "w", "i", "d", "g", "e", "t", "|", "b", "o", "l", "t", ")", "[", "\\", "s", "\\", "S", "]">>,
       <<>>, <<>>,
       <<"(", "\\", "d", "+", "\\", ".", "\\", "d", "+", ")", "T">> >>

\* A stored list with a start marker, no end marker and the given
\* description and total patterns; quantity and unit_price look for the
\* total's text, unit for the description's.
LineList(p_li_desc, p_li_total) ==
    << SampleTemplate.invoice_number, SampleTemplate.invoice_date,
       SampleTemplate.invoice_total_amount, SampleTemplate.order_date,
       <<"S">>, PyNone,
       <<"(", "t", ")">>, p_li_desc, <<"(", "x", ")">>, <<"(", "t", ")">>, p_li_total >>

InitLines ==
    /\ SegIdle
    /\ ExtNotApplyIdle
    /\ vendors = <<>>
    /\ \/ /\ \E pd \in DescriptionPatterns : \E pt \in TotalPatterns :
                templates = <<LineList(pd, pt)>>
          /\ \E lines \in SeqsUpTo(LineSamples, MaxLines) : text = JoinLines(lines)
       \/ /\ \E pd \in BlockDescriptionPatterns : \E pt \in TotalPatterns :
                templates = <<LineList(pd, pt)>>
          /\ \E lines \in SeqsUpTo(BlockLineSamples, MaxLines) :
                text = JoinLines(lines)
       \/ /\ templates = <<ItemizedList>>
          /\ text = ItemizedText
    /\ signals = NoSignals
    /\ res_pc = "idle"
    /\ registry0 = [vendors |-> <<>>, templates |-> <<>>]
    /\ ResolverLocalsInit
    /\ template = <<>>
    /\ by_template = NotApplied
    /\ by_stored = NotApplied

NextLines == RtApplyStored

SpecLines == InitLines /\ [][NextLines]_vars

\* The lines of the isolated block.
BlockLines == SplitLines(Slice(text, by_stored.start_index, by_stored.end_index))

\* The value the pattern of field k yields on line n of the block.
FieldOnLine(k, n) ==
    ExtractVal(templates[SampleVendorId][ListIndex(k)], Strip(BlockLines[n]))

\* Non-blank lines on which description or line_total is non-empty.
YieldingLines ==
    {n \in DOMAIN BlockLines :
        /\ Strip(BlockLines[n]) # <<>>
        /\ \/ Truthy(FieldOnLine("description", n))
           \/ Truthy(FieldOnLine("line_total", n))}

\* The nth yielding line in document order.
NthYielding(nth) ==
    CHOOSE n \in YieldingLines :
        Cardinality({m \in YieldingLines : m <= n}) = nth

\* The block-mode call on the itemized text returns its two items: the
\* article's name and the total, the other fields None.
ItemizedTextItems ==
    (text = ItemizedText /\ by_stored # NotApplied) =>
        /\ by_stored.raised = "none"
        /\ by_stored.line_items =
              << [quantity |-> PyNone, description |-> <<"w", "i", "d", "g", "e", "t">>,
                  unit |-> PyNone, unit_price |-> PyNone,
                  line_total |-> <<"7", ".", "0", "0">>],
                 [quantity |-> PyNone, description |-> <<"b", "o", "l", "t">>,
                  unit |-> PyNone, unit_price |-> PyNone,
                  line_total |-> <<"1", ".", "0", "0">>] >>

\* C21: in line mode a returning call yields, in document order, one item
\* for exactly the non-blank lines of the isolated block on which the
\* description or the line_total pattern gives a non-empty value, and the
\* five fields of each item are what the five patterns give on that line.
C21_LineModeItems ==
    ( /\ by_stored # NotApplied
      /\ by_stored.raised = "none"
      /\ ~IsBlockMode(templates[SampleVendorId][ListIndex("description")]) ) =>
        /\ Len(by_stored.line_items) = Cardinality(YieldingLines)
        /\ \A nth \in DOMAIN by_stored.line_items :
              /\ DOMAIN by_stored.line_items[nth] = ItemFields
              /\ \A k \in ItemFields :
                    by_stored.line_items[nth][k] = FieldOnLine(k, NthYielding(nth))

\* A returning call on a block with an empty line, a description line, a line
\* of neither kind and a total line: two items, the total-only one second.
C21_Witness ==
    /\ by_stored # NotApplied
    /\ by_stored.raised = "none"
    /\ text = <<"S", "\n", "x", "\n", "S", "\n", "t">>
    /\ templates[SampleVendorId][ListIndex("description")] = <<"(", "x", ")">>
    /\ Len(by_stored.line_items) = 2
    /\ by_stored.line_items[1].description = <<"x">>
    /\ by_stored.line_items[1].line_total = PyNone
    /\ by_stored.line_items[2].description = PyNone
    /\ by_stored.line_items[2].line_total = <<"t">>

-----------------------------------------------------------------------------
(* _parse_currency_amount on the amounts of invoices and on every short      *)
(* string                                                                   *)

\* Length bound of the enumerated amounts.
MaxAmountLen == 5

\* The amounts of the docstring and of other invoices, longer than the
\* enumerated ones.
AmountExamples ==
    { <<"$", "1", ",", "2", "3", "4", ".", "5", "6">>, <<"<euro>", "1", ".", "2", "3", "4", ",", "5", "6">>, <<"1", ",", "2", "3", "4", ".", "5", "6">>, <<"<euro>", "1", ",", "2", "3", "4", ".", "5", "6">>, <<"$", "1", ".", "2", "3", "4", ",", "5", "6">>,
      <<"1", ",", "2", "3", "4", ",", "5", "6">>, <<"1", ".", "2", "3", "4", ".", "5", "6", "7", ",", "8", "9">>, <<"<pound>", " ", "1", "2", ",", "5", "0">>, <<"<yen>", "1", ",", "2", "3", "4">>, <<"N", "/", "A">>,
      <<"4", ".", "0", "0">>, <<"1", "0">> }

ParseAmount ==
    /\ amount = AmountPending
    /\ amount' = ParseCurrencyAmount(amount_str)
    /\ UNCHANGED amount_str
    /\ UNCHANGED notAmountVars

InitAmounts ==
    /\ SegIdle
    /\ ResolverIdle
    /\ ExtNotAmountIdle
    /\ \/ amount_str \in AmountExamples \cup {PyNone}
       \/ amount_str \in SeqsUpTo({"1", "5", ",", ".", "$", "x"}, MaxAmountLen)
    /\ amount = AmountPending

NextAmounts == ParseAmount

SpecAmounts == InitAmounts /\ [][NextAmounts]_vars

\* amount_str without currency symbols and whitespace.
Bare == SelectSeq(amount_str, LAMBDA c : c \notin CurrencySymbols \cup SpaceChars)

Commas == {j \in DOMAIN Bare : Bare[j] = ","}

Periods == {j \in DOMAIN Bare : Bare[j] = "."}

Greatest(S) == CHOOSE j \in S : \A h \in S : h <= j

\* The positions read as the decimal separator: with both characters
\* present, those of the one occurring last; with commas only, the commas
\* when exactly two characters follow the last one; else the periods.
DecimalPositions ==
    IF Commas # {} /\ Periods # {}
    THEN IF Greatest(Commas) > Greatest(Periods) THEN Commas ELSE Periods
    ELSE IF Commas # {}
    THEN IF Len(Bare) - Greatest(Commas) = 2 THEN Commas ELSE {}
    ELSE Periods

\* The number read from Bare with that separator, the other one dropped.
ExpectedAmount ==
    IF \/ \E j \in DOMAIN Bare : Bare[j] \notin DigitChars \cup {",", "."}
       \/ Cardinality(DecimalPositions) > 1
       \/ DigitsOf(Bare) = <<>>
    THEN NoAmount
    ELSE Decimal(NatOf(DigitsOf(Bare)),
                 IF DecimalPositions = {} THEN 0
                 ELSE Cardinality({j \in DOMAIN Bare :
                                      j > Greatest(DecimalPositions)
                                      /\ Bare[j] \in DigitChars}))

\* C23: after currency symbols and whitespace are removed, the later of
\* comma and period is the decimal separator when both occur and the other
\* is removed; a lone comma is the decimal separator only when exactly two
\* characters follow the last comma; "$1,234.56", "<euro>1.234,56" and "1,234.56"
\* all give 1234.56; a missing or unparsable amount gives None, never zero
\* and never an error.
C23_CurrencyAmountParsing ==
    amount # AmountPending =>
        /\ amount.kind \in {"none", "float"}
        /\ ~Truthy(amount_str) => amount = NoAmount
        /\ Truthy(amount_str) => amount = ExpectedAmount
        /\ amount_str \in {<<"$", "1", ",", "2", "3", "4", ".", "5", "6">>, <<"<euro>", "1", ".", "2", "3", "4", ",", "5", "6">>, <<"1", ",", "2", "3", "4", ".", "5", "6">>} =>
              amount = [kind |-> "float", n |-> 123456, k |-> 2]
        /\ amount_str \in {<<"N", "/", "A">>, <<"1", ",", "2", "3", "4", ",", "5", "6">>, <<".">>, <<"$">>} => amount = NoAmount

\* "<euro>1.234,56" parsed to 1234.56.
C23_Witness ==
    /\ amount_str = <<"<euro>", "1", ".", "2", "3", "4", ",", "5", "6">>
    /\ amount = [kind |-> "float", n |-> 123456, k |-> 2]

-----------------------------------------------------------------------------
(* get_line_item_category called on every short description that its one  *)
(* caller, _build_line_items_records, can pass: a str that is stripped and  *)
(* not empty (build_dataframe.py 246-261)                                   *)

\* Stored maps: nothing, a category for "te", a document without category
\* for "te", an empty category for "te".
LookupMapSamples ==
    { <<>>,
      [k \in {<<"t", "e">>} |-> <<"F", "o", "o", "d">>],
      [k \in {<<"t", "e">>} |-> PyNone],
      [k \in {<<"t", "e">>} |-> <<>>] }

\* Longer descriptions: a noun of line 100 with a word after it, a size
\* block, a system line, lines ended by a carriage return and by a file
\* separator.
DescriptionSamples ==
    { <<"O", "n", "i", "o", "n", " ", "R", "e", "d">>,
      <<"4", " ", "x", " ", "5", " ", "l", "b", " ", "T", "e">>,
      <<"S", "a", "l", "e", "s", "-", "T", "a", "x", "\r", "x">>,
      <<"T", "e", "<fs>", "e">> }

InitCategory ==
    /\ SegIdle
    /\ ResolverIdle
    /\ ExtNotCatIdle
    /\ \/ raw_description \in {d \in SeqsUpTo({"T", "e", " ", "\n"}, MaxDescLen) :
                                   d # <<>> /\ Strip(d) = d}
       \/ raw_description \in DescriptionSamples
    /\ store_reachable \in BOOLEAN
    /\ item_lookup_map \in LookupMapSamples
    /\ categories \in {{}, {<<"f", "o", "o", "d">>}}
    /\ cat_pc = "start"
    /\ cleaned_description = <<>>
    /\ existing_categories = {}
    /\ predicted_category = <<>>
    /\ cat_result = <<>>

NextCategory ==
    \/ CatStart
    \/ CatLookup
    \/ CatNames
    \/ CatPredict
    \/ CatSaveCategory
    \/ CatUpsertMapping
    \/ CatOtherSession
    \/ CatImportCategory

SpecCategory == InitCategory /\ [][NextCategory]_vars

\* The ValueError of line 263 of the normalizer, raised when the call gave
\* None, is never raised.
CategoryValueErrorNeverRaised ==
    doc_error # "ValueError: Could not determine category"

\* The values cat_result holds for a call that raised.
CategoryExceptions == {IndexError, StoreError, JoinError}

\* C24: get_line_item_category never returns None: for every description
\* the normalizer passes, every stored map and every outcome of the model
\* request, a failed request included, what a call returns is a str, so
\* the check of line 262 of the normalizer never finds None.
C24_CategoryNeverNone ==
    cat_pc = "done" =>
        /\ cat_result # PyNone
        /\ cat_result \notin CategoryExceptions

\* The model request failed (or answered "Uncategorized") for a description
\* the map does not know, and the call returned "Uncategorized".
C24_Witness ==
    /\ cat_pc = "done"
    /\ raw_description = <<"T", "e">>
    /\ ~Truthy(GetStoredCategory(item_lookup_map, cleaned_description))
    /\ predicted_category = Uncategorized
    /\ cat_result = Uncategorized

-----------------------------------------------------------------------------
(* save_inv_li_to_db: src/src/storage/database.py 244-326                  *)

\* Bounds: calls in a row, rows of li_df.
MaxSaves == 2

MaxSavedItems == 2

\* str(v) of a str-or-None value.
StrOf(v) == IF v = PyNone THEN <<"N", "o", "n", "e">> ELSE v

\* to_float (lines 231-239) of a str-or-None value.
ToFloat(val) ==
    IF val = PyNone \/ PyFloat(val) = FloatError THEN Decimal(0, 0) ELSE PyFloat(val)

\* to_float of a float-or-None value.
ToFloatNumber(val) == IF val = NoAmount THEN Decimal(0, 0) ELSE val

\* Lines 270-279. ObjectId(v) raises InvalidId for a string that is no id:
\* a restaurant id is a short name, and the empty string is the one that is
\* no id (line 270); a vendor id is a number, and InvalidId is the one that
\* is no id (line 271). pd.to_datetime raises for a text that is no date;
\* "?" is that text.
PrepareRaises(inv_data) ==
    \/ inv_data.restaurant_id = <<>>
    \/ inv_data.vendor_id = InvalidId
    \/ inv_data.invoice_date = <<"?">>
    \/ inv_data.order_date = <<"?">>

\* Lines 268-279, for the document stored after the invoices invs (a
\* deleted invoice keeps its place in invs). ObjectId(None) of line 270
\* does not raise: it generates a new id, one no vendor has and no other
\* document carries (the ids below InvalidId, one for each place of invs).
InvoiceDoc(inv_data, invs) ==
    [filename |-> inv_data.filename,
     restaurant_id |-> inv_data.restaurant_id,
     vendor_id |-> IF inv_data.vendor_id = 0
                   THEN InvalidId - 1 - Len(invs)
                   ELSE inv_data.vendor_id,
     invoice_number |-> StrOf(inv_data.invoice_number),
     invoice_date |-> inv_data.invoice_date,
     invoice_total_amount |-> ToFloat(inv_data.invoice_total_amount),
     text_length |-> inv_data.text_length,
     page_count |-> inv_data.page_count,
     extraction_timestamp |-> inv_data.extraction_timestamp,
     order_date |-> inv_data.order_date]

\* Lines 296-306
CleanLineItem(item, invoice_id) ==
    [invoice_id |-> invoice_id,
     vendor_name |-> StrOf(item.vendor_name),
     category |-> IF Truthy(item.category) THEN item.category ELSE Uncategorized,
     quantity |-> item.quantity,
     unit |-> IF Truthy(item.unit) THEN item.unit ELSE <<>>,
     description |-> StrOf(item.description),
     unit_price |-> ToFloatNumber(item.unit_price),
     line_total |-> ToFloatNumber(item.line_total),
     line_number |-> Decimal(item.line_number, 0)]

\* The frames handed to the function: no row, the row of a built invoice,
\* that row with a restaurant id that is no ObjectId, and the row of a
\* document whose vendor could not be stored (vendor_id None).
InvoiceRow == BuildInvoiceRecord(SampleInvData, SampleContext, DocMeta)

InvoiceFrames ==
    { <<>>, <<InvoiceRow>>, <<[InvoiceRow EXCEPT !.restaurant_id = <<>>]>>,
      <<[InvoiceRow EXCEPT !.vendor_id = 0]>> }

LineItemRows ==
    { LineItemRecord(RawItem(<<"T", "e", "a">>, <<"4", ".", "0", "0">>), <<"T", "e", "a">>, <<"F", "o", "o", "d">>, SampleContext, 0),
      LineItemRecord(RawItem(<<"R", "i", "c", "e">>, PyNone), <<"R", "i", "c", "e">>, <<>>, SampleContext, 1) }

SaveFailed == [success |-> FALSE, invoice_id |-> 0]

\* The call and lines 255-283: an empty inv_df returns at once; a failing
\* conversion or a failing insert_one returns the failure dict of lines
\* 319-325 with nothing stored; else the invoice document is stored.
SaveInvoice ==
    /\ save_pc \in {"idle", "returned", "edited"}
    /\ saves < MaxSaves
    /\ saves' = saves + 1
    /\ stored_before' = [invoices |-> invoices, line_items |-> db_line_items]
    /\ \E inv \in InvoiceFrames : \E li \in SeqsUpTo(LineItemRows, MaxSavedItems) :
       \E insert_ok \in BOOLEAN :
          /\ save_inv_df' = inv
          /\ save_li_df' = li
          /\ IF inv = <<>> \/ PrepareRaises(inv[1]) \/ ~insert_ok
             THEN /\ save_result' = SaveFailed
                  /\ save_pc' = "returned"
                  /\ UNCHANGED <<invoices, new_invoice_id>>
             ELSE /\ invoices' = Append(invoices, InvoiceDoc(inv[1], invoices))
                  /\ new_invoice_id' = Len(invoices) + 1
                  /\ save_pc' = "line_items"
                  /\ UNCHANGED save_result
    /\ UNCHANGED <<db_line_items, edits, edit_result, deleting>>
    /\ UNCHANGED notSaveVars

\* Lines 286-325: insert_many stores the cleaned rows in order and stops at
\* the first one the server refuses; the exception is caught and the failure
\* dict is returned. Nothing removes the invoice document.
SaveLineItems ==
    /\ save_pc = "line_items"
    /\ \E stored \in 0..Len(save_li_df) :
          /\ db_line_items' = db_line_items \o
                 [j \in 1..stored |-> CleanLineItem(save_li_df[j], new_invoice_id)]
          /\ save_result' = IF stored = Len(save_li_df)
                            THEN [success |-> TRUE, invoice_id |-> new_invoice_id]
                            ELSE SaveFailed
    /\ save_pc' = "returned"
    /\ UNCHANGED <<invoices, stored_before, save_inv_df, save_li_df,
                   new_invoice_id, saves, edits, edit_result, deleting>>
    /\ UNCHANGED notSaveVars

\* Bound: calls of the edit functions in a row.
MaxEdits == 2

\* The values of an update: a str, a float, and a Decimal128 of bson, which
\* the edit page builds (pages/Upload_Invoices.py imports the class).
StrValue(s) == [kind |-> "str", s |-> s]

BsonDecimal128(x) == [kind |-> "decimal128", n |-> x.n, k |-> x.k]

\* The value as the document stores it.
Stored(val) == IF val.kind = "str" THEN val.s ELSE val

\* The exceptions of the edit functions, beside the ValueError of float().
NameError == [kind |-> "NameError"]

TypeError == [kind |-> "TypeError"]

IsException(val) == val.kind \in {"ValueError", "NameError", "TypeError"}

\* Decimal128(x) in database.py: the module imports ObjectId alone from
\* bson (line 7) and defines no Decimal128, so the call raises NameError
\* whatever x is.
Decimal128(x) == NameError

\* update_line_item lines 446-459 and update_invoice lines 404-409, on one
\* amount: a str loses its commas and goes through float(), which raises
\* ValueError for text that is no number; then Decimal128(str(val)) is
\* evaluated.
EditAmount(val) ==
    IF val.kind = "str" /\ PyFloat(RemoveChar(val.s, ",")) = FloatError THEN FloatError
    ELSE IF val.kind = "str" THEN Decimal128(PyFloat(RemoveChar(val.s, ",")))
    ELSE Decimal128(val)

\* update_line_item lines 461-464: float() of the quantity; float() of a
\* Decimal128 raises TypeError.
EditQuantity(val) ==
    IF val.kind = "str" THEN PyFloat(RemoveChar(val.s, ","))
    ELSE IF val.kind = "float" THEN val
    ELSE TypeError

\* datetime.datetime.now()
Now == <<"n", "o", "w">>

\* The $set document update_line_item builds from update_data; a field
\* holds the exception its conversion raises.
LineItemSet(update_data) ==
    [f \in DOMAIN update_data \cup {"updated_at"} |->
        IF f = "updated_at" THEN Now
        ELSE IF f \in {"unit_price", "line_total"} THEN EditAmount(update_data[f])
        ELSE IF f = "quantity" THEN EditQuantity(update_data[f])
        ELSE Stored(update_data[f])]

\* The $set document update_invoice builds from update_data.
InvoiceSet(update_data) ==
    [f \in DOMAIN update_data \cup {"updated_at"} |->
        IF f = "updated_at" THEN Now
        ELSE IF f = "invoice_total_amount" THEN EditAmount(update_data[f])
        ELSE Stored(update_data[f])]

\* pd.to_datetime raised on a date of update_data (lines 397-401).
DateRaises(update_data) ==
    \E f \in {"invoice_date", "order_date"} \cap DOMAIN update_data :
        update_data[f] = StrValue(<<"?">>)

\* The exception that ends the building of the document set, whose number
\* fields are converted in the order fields: the kind of the first one
\* raised, "none" when none is.
FirstException(set, fields) ==
    LET raised == {k \in DOMAIN fields :
                      fields[k] \in DOMAIN set /\ IsException(set[fields[k]])}
    IN IF raised = {} THEN "none"
       ELSE set[fields[CHOOSE k \in raised : \A h \in raised : k <= h]].kind

\* update_invoice lines 397-409: the dates, then the amount.
InvoiceException(update_data) ==
    IF DateRaises(update_data) THEN "ValueError"
    ELSE FirstException(InvoiceSet(update_data), <<"invoice_total_amount">>)

\* update_line_item lines 445-464
LineItemException(update_data) ==
    FirstException(LineItemSet(update_data), <<"unit_price", "line_total", "quantity">>)

\* update_one({"_id": oid}, {"$set": set}) on the document doc.
UpdateOneSet(doc, set) ==
    [f \in DOMAIN doc \cup DOMAIN set |-> IF f \in DOMAIN set THEN set[f] ELSE doc[f]]

InvoiceUpdates ==
    { [invoice_number |-> StrValue(<<"7", "8">>)],
      [invoice_total_amount |-> StrValue(<<"1", ",", "2", "0", "0", ".", "5">>)],
      [invoice_total_amount |-> StrValue(<<"x">>)],
      [invoice_total_amount |-> BsonDecimal128(Decimal(12, 0))],
      [invoice_date |-> StrValue(<<"?">>)] }

LineItemUpdates ==
    { [description |-> StrValue(<<"C", "o", "f", "f", "e", "e">>)],
      [unit_price |-> StrValue(<<"1", ",", "0", "0", "0">>),
       quantity |-> StrValue(<<"3">>)],
      [line_total |-> StrValue(<<"x">>)],
      [quantity |-> StrValue(<<"3">>)],
      [quantity |-> BsonDecimal128(Decimal(2, 0))] }

\* What is left of an invoice document that was deleted: its id is not
\* given to another document.
NoDocument == [deleted |-> TRUE]

\* The ids of the stored invoices.
InvoiceIds == {k \in DOMAIN invoices : invoices[k] # NoDocument}

\* The dict an edit function returns; error is the exception it caught.
EditResult(success, message, error) ==
    [success |-> success, message |-> message, error |-> error]

\* An edit function is called between two calls of save_inv_li_to_db.
EditCalled ==
    /\ save_pc \in {"idle", "returned", "edited"}
    /\ edits < MaxEdits
    /\ edits' = edits + 1
    /\ save_pc' = "edited"
    /\ UNCHANGED <<stored_before, save_inv_df, save_li_df, new_invoice_id,
                   save_result, saves>>
    /\ UNCHANGED notSaveVars

\* The ids an edit function is called with: the ids of stored documents,
\* an id no document has (0), a string that is no id.
EditIds(stored) == stored \cup {0, InvalidId}

\* update_invoice, lines 379-425, on the id oid. ObjectId(invoice_id) comes
\* first (line 394), then the conversions, then update_one, which the store
\* may fail. Every exception is caught and nothing is written then.
UpdateInvoice ==
    /\ EditCalled
    /\ \E oid \in EditIds(InvoiceIds) : \E update_data \in InvoiceUpdates :
       \E outcome \in DbOutcomes :
          IF oid = InvalidId
          THEN /\ edit_result' = EditResult(FALSE, "Error updating invoice", "InvalidId")
               /\ UNCHANGED invoices
          ELSE IF InvoiceException(update_data) # "none"
          THEN /\ edit_result' = EditResult(FALSE, "Error updating invoice",
                                            InvoiceException(update_data))
               /\ UNCHANGED invoices
          ELSE IF outcome = "fails"
          THEN /\ edit_result' = EditResult(FALSE, "Error updating invoice", "DBError")
               /\ UNCHANGED invoices
          ELSE IF oid = 0
          THEN /\ edit_result' = EditResult(FALSE,
                                    "No changes made or invoice not found", "none")
               /\ UNCHANGED invoices
          ELSE /\ invoices' = [invoices EXCEPT
                                  ![oid] = UpdateOneSet(@, InvoiceSet(update_data))]
               /\ edit_result' = EditResult(TRUE, "Invoice updated successfully", "none")
    /\ UNCHANGED <<db_line_items, deleting>>

\* update_line_item, lines 427-480, on the id oid: ObjectId(line_item_id)
\* (line 442), the conversions, then update_one, which the store may fail.
UpdateLineItem ==
    /\ EditCalled
    /\ \E oid \in EditIds(DOMAIN db_line_items) : \E update_data \in LineItemUpdates :
       \E outcome \in DbOutcomes :
          IF oid = InvalidId
          THEN /\ edit_result' = EditResult(FALSE, "Error updating line item", "InvalidId")
               /\ UNCHANGED db_line_items
          ELSE IF LineItemException(update_data) # "none"
          THEN /\ edit_result' = EditResult(FALSE, "Error updating line item",
                                            LineItemException(update_data))
               /\ UNCHANGED db_line_items
          ELSE IF outcome = "fails"
          THEN /\ edit_result' = EditResult(FALSE, "Error updating line item", "DBError")
               /\ UNCHANGED db_line_items
          ELSE IF oid = 0
          THEN /\ edit_result' = EditResult(FALSE,
                                    "No changes made or line item not found", "none")
               /\ UNCHANGED db_line_items
          ELSE /\ db_line_items' = [db_line_items EXCEPT
                                  ![oid] = UpdateOneSet(@, LineItemSet(update_data))]
               /\ edit_result' = EditResult(TRUE, "Line item updated successfully", "none")
    /\ UNCHANGED <<invoices, deleting>>

\* delete_line_item, lines 482-504: ObjectId(line_item_id) (line 493), then
\* delete_one, which the store may fail; the exception is caught.
DeleteLineItem ==
    /\ EditCalled
    /\ \E oid \in EditIds(DOMAIN db_line_items) : \E outcome \in DbOutcomes :
          IF oid = InvalidId
          THEN /\ edit_result' = EditResult(FALSE, "Error deleting line item", "InvalidId")
               /\ UNCHANGED db_line_items
          ELSE IF outcome = "fails"
          THEN /\ edit_result' = EditResult(FALSE, "Error deleting line item", "DBError")
               /\ UNCHANGED db_line_items
          ELSE IF oid = 0
          THEN /\ edit_result' = EditResult(FALSE, "Line item not found", "none")
               /\ UNCHANGED db_line_items
          ELSE /\ db_line_items' = SubSeq(db_line_items, 1, oid - 1)
                                      \o SubSeq(db_line_items, oid + 1, Len(db_line_items))
               /\ edit_result' = EditResult(TRUE, "Line item deleted successfully", "none")
    /\ UNCHANGED <<invoices, deleting>>

\* The whole number a stored line_number is.
LineNumberValue(x) == IF x.k = 0 THEN x.n ELSE x.n \div 10

\* find_one({"invoice_id": oid}, sort=[("line_number", -1)]): a line item
\* of the invoice with the greatest line_number.
MaxLine(items) ==
    CHOOSE k \in DOMAIN items :
        \A h \in DOMAIN items :
            LineNumberValue(items[h].line_number) <= LineNumberValue(items[k].line_number)

\* Lines 528-532: max_line's line_number + 1; adding 1 to a Decimal128
\* raises TypeError.
NextLineNumber(items) ==
    IF items = <<>> THEN Decimal(1, 0)
    ELSE IF items[MaxLine(items)].line_number.kind = "decimal128" THEN TypeError
    ELSE Decimal(LineNumberValue(items[MaxLine(items)].line_number) + 1, 0)

\* Lines 535-549: line_item_data.get(f, 0), a str converted by float().
AddFloat(line_item_data, f) ==
    IF f \notin DOMAIN line_item_data THEN Decimal(0, 0)
    ELSE IF line_item_data[f].kind = "str"
    THEN PyFloat(RemoveChar(line_item_data[f].s, ","))
    ELSE line_item_data[f]

\* Lines 551-561: the new document; a field holds the exception its
\* expression raises.
NewLineItem(oid, line_item_data, items) ==
    [invoice_id |-> oid,
     vendor_name |-> Stored(GetOr(line_item_data, "vendor_name", StrValue(<<>>))),
     category |-> Stored(GetOr(line_item_data, "category", StrValue(Uncategorized))),
     description |-> Stored(GetOr(line_item_data, "description", StrValue(<<>>))),
     quantity |-> IF AddFloat(line_item_data, "quantity").kind = "decimal128"
                  THEN TypeError
                  ELSE AddFloat(line_item_data, "quantity"),
     unit |-> Stored(GetOr(line_item_data, "unit", StrValue(<<>>))),
     unit_price |-> Decimal128(AddFloat(line_item_data, "unit_price")),
     line_total |-> Decimal128(AddFloat(line_item_data, "line_total")),
     line_number |-> Decimal128(NextLineNumber(items))]

\* The exception add_line_item catches after it found the invoice: line 532,
\* then the float() of lines 537, 543 and 549, then the entries of the
\* document in the order they are written.
AddLineItemException(oid, line_item_data, items) ==
    IF NextLineNumber(items) = TypeError THEN "TypeError"
    ELSE IF \E f \in {"unit_price", "line_total", "quantity"} :
               AddFloat(line_item_data, f) = FloatError
    THEN "ValueError"
    ELSE FirstException(NewLineItem(oid, line_item_data, items),
                        <<"quantity", "unit_price", "line_total", "line_number">>)

\* The stored line items of invoice id.
ItemsOf(id) == SelectSeq(db_line_items, LAMBDA item : item.invoice_id = id)

\* The store during add_line_item: it answers, it fails a read (lines 523
\* and 528), it fails insert_one (line 564).
AddOutcomes == {"ok", "read_fails", "insert_fails"}

\* add_line_item, lines 506-573: ObjectId(invoice_id) (line 520), the read
\* of the invoice and of its last line item, the conversions, insert_one.
\* Every exception is caught and nothing is written then.
AddLineItem ==
    /\ EditCalled
    /\ \E oid \in EditIds(InvoiceIds) : \E line_item_data \in LineItemUpdates :
       \E outcome \in AddOutcomes :
          IF oid = InvalidId
          THEN /\ edit_result' = EditResult(FALSE, "Error adding line item", "InvalidId")
               /\ UNCHANGED db_line_items
          ELSE IF outcome = "read_fails"
          THEN /\ edit_result' = EditResult(FALSE, "Error adding line item", "DBError")
               /\ UNCHANGED db_line_items
          ELSE IF oid = 0
          THEN /\ edit_result' = EditResult(FALSE, "Invoice not found", "none")
               /\ UNCHANGED db_line_items
          ELSE IF AddLineItemException(oid, line_item_data, ItemsOf(oid)) # "none"
          THEN /\ edit_result' = EditResult(FALSE, "Error adding line item",
                                    AddLineItemException(oid, line_item_data, ItemsOf(oid)))
               /\ UNCHANGED db_line_items
          ELSE IF outcome = "insert_fails"
          THEN /\ edit_result' = EditResult(FALSE, "Error adding line item", "DBError")
               /\ UNCHANGED db_line_items
          ELSE /\ db_line_items' = Append(db_line_items,
                      NewLineItem(oid, line_item_data, ItemsOf(oid)))
               /\ edit_result' = EditResult(TRUE, "Line item added successfully", "none")
    /\ UNCHANGED <<invoices, deleting>>

\* The "Yes, Delete" button of render_browse_invoices
\* (pages/Upload_Invoices.py 759-763), first write: delete_many removes the
\* line items of the selected invoice, or raises out of the handler with
\* nothing removed.
BrowseDeleteLineItems ==
    /\ EditCalled
    /\ deleting = 0
    /\ \E oid \in InvoiceIds : \E outcome \in DbOutcomes :
          IF outcome = "ok"
          THEN /\ db_line_items' = SelectSeq(db_line_items,
                                             LAMBDA item : item.invoice_id # oid)
               /\ deleting' = oid
          ELSE UNCHANGED <<db_line_items, deleting>>
    /\ UNCHANGED <<invoices, edit_result>>

\* The second write of the handler, line 763: delete_one removes the
\* invoice document, or raises and leaves it stored without its line items.
BrowseDeleteInvoice ==
    /\ save_pc \in {"idle", "returned", "edited"}
    /\ deleting # 0
    /\ \E outcome \in DbOutcomes :
          invoices' = IF outcome = "ok"
                      THEN [invoices EXCEPT ![deleting] = NoDocument]
                      ELSE invoices
    /\ deleting' = 0
    /\ save_pc' = "edited"
    /\ UNCHANGED <<db_line_items, stored_before, save_inv_df, save_li_df,
                   new_invoice_id, save_result, saves, edits, edit_result>>
    /\ UNCHANGED notSaveVars

InitSave ==
    /\ SegIdle
    /\ ResolverIdle
    /\ ExtNotSaveIdle
    /\ SaveIdle

NextSave ==
    \/ SaveInvoice
    \/ SaveLineItems
    \/ UpdateInvoice
    \/ UpdateLineItem
    \/ DeleteLineItem
    \/ AddLineItem
    \/ BrowseDeleteLineItems
    \/ BrowseDeleteInvoice

SpecSave == InitSave /\ [][NextSave]_vars

\* C25: after any call, either the invoice and all of its line items are
\* stored or neither the invoice nor any of its line items is; a result with
\* success = False leaves no invoice document behind.
C25_InvoiceAndItemsStoredTogether ==
    save_pc = "returned" =>
        /\ save_result.success =>
              /\ Len(invoices) = Len(stored_before.invoices) + 1
              /\ Len(ItemsOf(save_result.invoice_id)) = Len(save_li_df)
        /\ ~save_result.success =>
              /\ invoices = stored_before.invoices
              /\ db_line_items = stored_before.line_items
-----------------------------------------------------------------------------
(***************************************************************************)
(* The batch drivers: the processing loop of the upload page               *)
(* (src/pages/Upload_Invoices.py, process_single_file and lines 1091-1124) *)
(* and run_pipeline (src/main.py).  A document of a batch is what its      *)
(* processing steps do when they are called on it.                         *)
(***************************************************************************)

\* Length bound of a batch.
MaxDocs == 2

\* A document of the batch: what process_invoice does on its file (it
\* returns the text or raises) and the signals extract_vendor_signals finds
\* in the text. The documents are: a file process_invoice fails on, a blank
\* page, a document of the registered vendor Acme, a document of the vendor
\* Rust, which the registry does not know, and a document that names nobody.
DocKinds ==
    { [extraction |-> "raises", text |-> <<>>, signals |-> NoSignals],
      [extraction |-> "returns", text |-> <<" ">>, signals |-> NoSignals],
      [extraction |-> "returns", text |-> <<"d", "o", "c">>,
       signals |-> [NoSignals EXCEPT !.website = <<"A", "C", "M", "E", ".", "c", "o">>]],
      [extraction |-> "returns", text |-> <<"d", "o", "c">>,
       signals |-> [NoSignals EXCEPT
                       !.website = <<"r", "u", "s", "t", ".", "i", "o">>,
                       !.vendor_email_id = <<"h", "i", "@", "r", "u", "s", "t", ".", "i", "o">>]],
      [extraction |-> "returns", text |-> <<"d", "o", "c">>, signals |-> NoSignals] }

\* The parameters of get_structured_data_from_text (build_dataframe.py
\* 20-28); none has a default.
BuildParameters ==
    {"extracted_text", "filename", "text_length", "page_count",
     "extraction_timestamp", "restaurant_id", "file_path"}

\* The keyword arguments of the call in process_single_file (lines 135-143).
UploadCallArguments == BuildParameters

\* The keyword arguments of the call in run_pipeline (main.py 49-55).
PipelineCallArguments ==
    {"extracted_text", "filename", "text_length", "page_count",
     "extraction_timestamp", "restaurant_id"}

\* Calling get_structured_data_from_text with the given keyword arguments:
\* TypeError when a parameter is missing, else the function is entered.
CallBuild(arguments) ==
    IF BuildParameters \ arguments # {} THEN "TypeError" ELSE "enters"

\* get_structured_data_from_text is entered on the document doc: its locals
\* and those of identify_vendor_and_get_regex are new.
EnterDocument(doc) ==
    /\ extracted_text' = doc.text
    /\ doc_pc' = "start"
    /\ doc_error' = "none"
    /\ vendor_context' = <<>>
    /\ extracted_inv_data' = <<>>
    /\ extracted_li_data' = <<>>
    /\ inv_df' = <<>>
    /\ idx' = 0
    /\ line_items' = <<>>
    /\ category_calls' = <<>>
    /\ doc_result' = <<>>
    /\ signals' = doc.signals
    /\ registry0' = [vendors |-> vendors, templates |-> templates]
    /\ UNCHANGED <<vendors, templates, res_pc, lookups, vendor_id, matched_by,
                   phase1, new_regexes, new_vendor_id, llm_calls, llm_response,
                   result, res_error>>

\* get_structured_data_from_text has been left: its locals and those of
\* identify_vendor_and_get_regex are gone.
LeaveDocument ==
    /\ extracted_text' = <<>>
    /\ doc_pc' = "idle"
    /\ doc_error' = "none"
    /\ vendor_context' = <<>>
    /\ extracted_inv_data' = <<>>
    /\ extracted_li_data' = <<>>
    /\ inv_df' = <<>>
    /\ idx' = 0
    /\ line_items' = <<>>
    /\ category_calls' = <<>>
    /\ doc_result' = <<>>
    /\ signals' = NoSignals
    /\ res_pc' = "idle"
    /\ lookups' = <<>>
    /\ vendor_id' = 0
    /\ matched_by' = "none"
    /\ phase1' = [vendor_master_data |-> PyNone]
    /\ new_regexes' = <<>>
    /\ new_vendor_id' = 0
    /\ llm_calls' = 0
    /\ llm_response' = NoLlmResponse
    /\ result' = NoResult
    /\ res_error' = "none"
    /\ UNCHANGED <<vendors, templates, registry0>>

\* Everything but the variables of the batch, the document and the
\* resolver.
notBatchDocVars == <<segVars, applyVars, llmVars, raceVars, amountVars, catVars,
                     invoices, db_line_items, stored_before, save_pc, save_inv_df,
                     save_li_df, new_invoice_id, save_result, saves, edits,
                     edit_result, deleting>>

\* check_duplicate_invoice (database.py 357-377): the id of a stored invoice
\* of that vendor with that number, 0 for None. The whole body is in a try
\* block: for a vendor id ObjectId() rejects and for a store that fails
\* the read, the exception is printed and None is returned.
CheckDuplicateInvoice(invs, vid, number, outcome) ==
    LET found == {j \in DOMAIN invs :
                     /\ invs[j] # [deleted |-> TRUE]
                     /\ invs[j].vendor_id = vid
                     /\ invs[j].invoice_number = number}
    IN IF vid = InvalidId \/ outcome = "fails" THEN 0
       ELSE IF found = {} THEN 0
       ELSE CHOOSE j \in found : TRUE

UnknownVendor == <<"U", "n", "k", "n", "o", "w", "n", " ", "V", "e", "n", "d", "o", "r">>

\* The result dict of lines 92-104. invoice_df is the sequence of its rows,
\* empty for None; vendor_id and duplicate_id are 0 for None.
NewResult(name) ==
    [filename |-> name, status |-> "processing", message |-> "",
     invoice_df |-> <<>>, vendor_id |-> 0, vendor_name |-> <<>>,
     is_duplicate |-> FALSE, duplicate_id |-> 0, extraction_failed |-> FALSE]

\* Lines 196-199 (and 121-125): the except branch writes into the result
\* dict as it stands; what the try block stored in it before stays.
FailedFrom(file, message) ==
    [file EXCEPT !.status = "failed", !.message = message,
                 !.extraction_failed = TRUE]

\* The result of a file that failed before anything was stored in it.
FailedResult(name, message) == FailedFrom(NewResult(name), message)

\* Nothing of the document machine moves.
DocumentAtRest ==
    UNCHANGED <<docVars, vendors, templates, signals, res_pc, lookups, vendor_id,
                matched_by, phase1, new_regexes, new_vendor_id, llm_calls,
                llm_response, result, res_error, registry0>>

\* process_single_file, lines 92-125, for the next file of the upload loop
\* (line 1099): the file is written and process_invoice is called. An
\* exception is caught at line 196; text that is empty or blank ends the
\* call with "Text extraction failed".
UploadFile ==
    /\ batch_pc = "loop"
    /\ driver = "upload"
    /\ batch_idx < Len(documents)
    /\ LET doc == documents[batch_idx + 1] IN
       IF doc.extraction = "raises"
       THEN /\ file_result' = FailedResult(batch_idx + 1, "Error: extraction")
            /\ batch_pc' = "returned"
       ELSE IF ~Truthy(doc.text) \/ Strip(doc.text) = <<>>
       THEN /\ file_result' = FailedResult(batch_idx + 1, "Text extraction failed")
            /\ batch_pc' = "returned"
       ELSE /\ file_result' = NewResult(batch_idx + 1)
            /\ batch_pc' = "restaurant"
    /\ DocumentAtRest
    /\ UNCHANGED <<driver, documents, batch_idx, processed_data, seen_invoices,
                   batch_error>>
    /\ UNCHANGED notBatchDocVars

\* Lines 129-143: the restaurant is read, which the store may fail (the
\* exception is caught at line 196), and get_structured_data_from_text is
\* called with every parameter it has.
UploadBuild ==
    /\ batch_pc = "restaurant"
    /\ \E outcome \in DbOutcomes :
       IF outcome = "fails"
       THEN /\ file_result' = FailedFrom(file_result, "Error: DBError")
            /\ batch_pc' = "returned"
            /\ DocumentAtRest
       ELSE IF CallBuild(UploadCallArguments) = "TypeError"
       THEN /\ file_result' = FailedFrom(file_result, "Error: TypeError")
            /\ batch_pc' = "returned"
            /\ DocumentAtRest
       ELSE /\ EnterDocument(documents[batch_idx + 1])
            /\ batch_pc' = "build"
            /\ UNCHANGED file_result
    /\ UNCHANGED <<driver, documents, batch_idx, processed_data, seen_invoices,
                   batch_error>>
    /\ UNCHANGED notBatchDocVars

\* Lines 168-173: the status "partial" for an invoice row whose vendor_name
\* column holds "Unknown Vendor", and the row.
WithInvoice(file, row) ==
    [file EXCEPT
        !.status = IF GetOr(row, "vendor_name", PyNone) = UnknownVendor
                   THEN "partial" ELSE @,
        !.message = IF GetOr(row, "vendor_name", PyNone) = UnknownVendor
                    THEN "Vendor could not be identified" ELSE @,
        !.invoice_df = <<row>>]

\* save_inv_li_to_db (database.py 244-326) as one call on the stored
\* invoices invs and line items items: nothing is stored for an empty
\* inv_df, a failing conversion or a failing insert_one; else the invoice
\* document is stored, and insert_many stores the first stored rows of
\* li_df, all of them when it does not raise.
SaveInvLiToDb(invs, items, inv, li, insert_ok, stored) ==
    IF inv = <<>> \/ PrepareRaises(inv[1]) \/ ~insert_ok
    THEN [invoices |-> invs, line_items |-> items, result |-> SaveFailed]
    ELSE [invoices |-> Append(invs, InvoiceDoc(inv[1], invs)),
          line_items |-> items \o [j \in 1..stored |->
                                      CleanLineItem(li[j], Len(invs) + 1)],
          result |-> IF stored = Len(li)
                     THEN [success |-> TRUE, invoice_id |-> Len(invs) + 1]
                     ELSE SaveFailed]

\* The entry run_pipeline's iteration leaves for a document (main.py 58):
\* the message is printed whatever save_inv_li_to_db returned.
PipelineSaved(name) == [filename |-> name, status |-> "saved", message |-> "Done!"]

\* Everything but the variables of the batch, the document, the resolver
\* and the two stored collections.
notBatchDocStoreVars ==
    <<segVars, applyVars, llmVars, raceVars, amountVars, catVars,
      stored_before, save_pc, save_inv_df, save_li_df, new_invoice_id,
      save_result, saves, edits, edit_result, deleting>>

\* get_structured_data_from_text has returned its frames or raised. In
\* process_single_file the exception is caught at line 196 and the frames
\* are put into the result (lines 168-173); in run_pipeline nothing catches
\* the exception, and the frames returned are handed to save_inv_li_to_db
\* (main.py 56), whose result is not looked at.
DocumentBuilt ==
    /\ batch_pc = "build"
    /\ doc_pc \in {"done", "error"}
    /\ IF driver = "upload"
       THEN /\ IF doc_pc = "error"
               THEN /\ file_result' = FailedFrom(file_result, "Error: " \o doc_error)
                    /\ batch_pc' = "returned"
               ELSE /\ file_result' = WithInvoice(file_result, doc_result.inv_df)
                    /\ batch_pc' = "vendor_name"
            /\ UNCHANGED <<batch_idx, processed_data, batch_error, invoices,
                           db_line_items>>
       ELSE /\ IF doc_pc = "error"
               THEN /\ batch_pc' = "aborted"
                    /\ batch_error' = doc_error
                    /\ UNCHANGED <<batch_idx, processed_data, invoices,
                                   db_line_items>>
               ELSE /\ \E insert_ok \in BOOLEAN :
                       \E stored \in 0..Len(doc_result.li_df) :
                          /\ invoices' =
                                SaveInvLiToDb(invoices, db_line_items,
                                              <<doc_result.inv_df>>, doc_result.li_df,
                                              insert_ok, stored).invoices
                          /\ db_line_items' =
                                SaveInvLiToDb(invoices, db_line_items,
                                              <<doc_result.inv_df>>, doc_result.li_df,
                                              insert_ok, stored).line_items
                    /\ processed_data' = Append(processed_data,
                                                PipelineSaved(batch_idx + 1))
                    /\ batch_idx' = batch_idx + 1
                    /\ batch_pc' = "loop"
                    /\ UNCHANGED batch_error
            /\ UNCHANGED file_result
    /\ LeaveDocument
    /\ UNCHANGED <<driver, documents, seen_invoices>>
    /\ UNCHANGED notBatchDocStoreVars

\* Lines 176-179: the vendor id of the row is stored in the result, then
\* the vendor's name as get_vendor_name_by_id reads it from the registry.
\* The read is in no try block of its own: when the store fails it, the
\* exception is caught at line 196 and the file is reported failed, with
\* the frames and the vendor id already in the result. No read is made for
\* an id that is None or that ObjectId() rejects.
UploadVendorName ==
    /\ batch_pc = "vendor_name"
    /\ \E outcome \in DbOutcomes :
       IF outcome = "fails" /\ file_result.invoice_df[1].vendor_id \notin {0, InvalidId}
       THEN /\ file_result' =
                  FailedFrom([file_result EXCEPT
                                 !.vendor_id = file_result.invoice_df[1].vendor_id],
                             "Error: DBError")
            /\ batch_pc' = "returned"
       ELSE /\ file_result' =
                  [file_result EXCEPT
                     !.vendor_id = file_result.invoice_df[1].vendor_id,
                     !.vendor_name =
                        IF Truthy(GetVendorNameById(file_result.invoice_df[1].vendor_id, vendors))
                        THEN GetVendorNameById(file_result.invoice_df[1].vendor_id, vendors)
                        ELSE <<"U", "n", "k", "n", "o", "w", "n">>]
            /\ batch_pc' = "duplicate"
    /\ DocumentAtRest
    /\ UNCHANGED <<driver, documents, batch_idx, processed_data, seen_invoices,
                   batch_error>>
    /\ UNCHANGED notBatchDocVars

\* Lines 181-194: check_duplicate_invoice reads the stored invoices, or
\* returns None when the store fails; the status written at lines 168-170
\* is overwritten.
UploadDuplicate ==
    /\ batch_pc = "duplicate"
    /\ \E outcome \in DbOutcomes :
       LET duplicate == CheckDuplicateInvoice(invoices, file_result.vendor_id,
                            StrOf(file_result.invoice_df[1].invoice_number), outcome)
       IN file_result' =
             IF file_result.vendor_id # 0 /\ duplicate # 0
             THEN [file_result EXCEPT !.is_duplicate = TRUE,
                                      !.duplicate_id = duplicate,
                                      !.status = "duplicate",
                                      !.message = "Duplicate found"]
             ELSE [file_result EXCEPT !.status = "success",
                                      !.message = "Extraction successful"]
    /\ batch_pc' = "returned"
    /\ DocumentAtRest
    /\ UNCHANGED <<driver, documents, batch_idx, processed_data, seen_invoices,
                   batch_error>>
    /\ UNCHANGED notBatchDocVars

\* The rest of the iteration of the upload loop (lines 1101-1116): unless
\* the registry already flagged it, the file is compared with the pairs seen
\* in this batch, and its result is appended.
UploadAppend ==
    /\ batch_pc = "returned"
    /\ LET file == file_result
           eligible == file.vendor_id # 0 /\ file.invoice_df # <<>>
                       /\ ~file.is_duplicate
           inv_num == IF file.invoice_df = <<>> THEN <<>>
                      ELSE StrOf(GetOr(file.invoice_df[1], "invoice_number", <<>>))
           signature == <<file.vendor_id, inv_num>>
       IN IF eligible /\ signature \in seen_invoices /\ Truthy(inv_num)
          THEN /\ processed_data' = Append(processed_data,
                      [file EXCEPT !.is_duplicate = TRUE, !.status = "duplicate",
                                   !.message = "Duplicate in batch"])
               /\ UNCHANGED seen_invoices
          ELSE /\ processed_data' = Append(processed_data, file)
               /\ seen_invoices' = IF eligible /\ Truthy(inv_num)
                                   THEN seen_invoices \cup {signature}
                                   ELSE seen_invoices
    /\ batch_idx' = batch_idx + 1
    /\ batch_pc' = "loop"
    /\ file_result' = <<>>
    /\ DocumentAtRest
    /\ UNCHANGED <<driver, documents, batch_error>>
    /\ UNCHANGED notBatchDocVars

\* Lines 1124-1127: the results are stored in the session.
UploadFinish ==
    /\ batch_pc = "loop"
    /\ driver = "upload"
    /\ batch_idx = Len(documents)
    /\ batch_pc' = "done"
    /\ UNCHANGED <<driver, documents, batch_idx, processed_data, seen_invoices,
                   batch_error, file_result>>
    /\ UNCHANGED notBatchVars

\* One iteration of the loop of run_pipeline (main.py 45-55) up to the call
\* of get_structured_data_from_text; nothing catches an exception there.
PipelineFile ==
    /\ batch_pc = "loop"
    /\ driver = "pipeline"
    /\ batch_idx < Len(documents)
    /\ IF documents[batch_idx + 1].extraction = "raises"
       THEN /\ batch_pc' = "aborted"
            /\ batch_error' = "extraction error"
            /\ DocumentAtRest
       ELSE IF CallBuild(PipelineCallArguments) = "TypeError"
       THEN /\ batch_pc' = "aborted"
            /\ batch_error' = "TypeError"
            /\ DocumentAtRest
       ELSE /\ EnterDocument(documents[batch_idx + 1])
            /\ batch_pc' = "build"
            /\ UNCHANGED batch_error
    /\ UNCHANGED <<driver, documents, batch_idx, processed_data, seen_invoices,
                   file_result>>
    /\ UNCHANGED notBatchDocVars

\* main.py 60-61: the loop is over.
PipelineFinish ==
    /\ batch_pc = "loop"
    /\ driver = "pipeline"
    /\ batch_idx = Len(documents)
    /\ batch_pc' = "done"
    /\ UNCHANGED <<driver, documents, batch_idx, processed_data, seen_invoices,
                   batch_error, file_result>>
    /\ UNCHANGED notBatchVars

\* What apply_regex_extraction produces for a document of a batch: an
\* exception, the invoice number 77 and one item, or no number and no item.
BatchExtractionOutcomes ==
    { [raises |-> TRUE, inv_data |-> <<>>, li_data |-> <<>>],
      [raises |-> FALSE, inv_data |-> SampleInvData,
       li_data |-> <<RawItem(<<" ", "T", "e", "a", " ">>, <<"4", ".", "0", "0">>)>>],
      [raises |-> FALSE, inv_data |-> [SampleInvData EXCEPT !.invoice_number = PyNone],
       li_data |-> <<>>] }

BatchApply == DocApplyStep(BatchExtractionOutcomes)

\* The category model answers "Food" or fails.
BatchPredict ==
    CatPredictStep({[raises |-> FALSE, text |-> <<"F", "o", "o", "d">>],
                    [raises |-> TRUE, text |-> <<>>]})

\* A batch of up to MaxDocs documents handed to one of the two drivers, with
\* a registry that knows Acme and Bolt, and with or without a stored invoice
\* 77 of Acme.
InitBatch ==
    /\ SegIdle
    /\ vendors = <<VendorAcme, VendorBolt>>
    /\ templates = <<StoredTemplate, StoredTemplate>>
    /\ signals = NoSignals
    /\ res_pc = "idle"
    /\ registry0 = [vendors |-> vendors, templates |-> templates]
    /\ ResolverLocalsInit
    /\ ApplyIdle
    /\ DocIdle
    /\ LlmIdle
    /\ RaceIdle
    /\ AmountIdle
    /\ CatIdle
    /\ invoices \in {<<>>, <<InvoiceDoc(InvoiceRow, <<>>)>>}
    /\ db_line_items = <<>>
    /\ stored_before = [invoices |-> <<>>, line_items |-> <<>>]
    /\ save_pc = "idle"
    /\ save_inv_df = <<>>
    /\ save_li_df = <<>>
    /\ new_invoice_id = 0
    /\ save_result = SaveFailed
    /\ saves = 0
    /\ edits = 0
    /\ edit_result = [success |-> FALSE, message |-> "none", error |-> "none"]
    /\ deleting = 0
    /\ driver \in {"upload", "pipeline"}
    /\ documents \in SeqsUpTo(DocKinds, MaxDocs)
    /\ batch_idx = 0
    /\ processed_data = <<>>
    /\ seen_invoices = {}
    /\ batch_pc = "loop"
    /\ batch_error = "none"
    /\ file_result = <<>>

NextBatch ==
    \/ UploadFile
    \/ UploadBuild
    \/ DocStart
    \/ ResSearch
    \/ ResFound
    \/ DerivePhase1
    \/ RacePhase2
    \/ ResCreateVendor
    \/ ResSaveRegex
    \/ ResReturnCreated
    \/ DocResolved
    \/ BatchApply
    \/ BuildItem
    \/ CatStart
    \/ CatLookup
    \/ CatNames
    \/ BatchPredict
    \/ CatSaveCategory
    \/ CatUpsertMapping
    \/ BuildItemRecord
    \/ BuildReturn
    \/ DocumentBuilt
    \/ UploadVendorName
    \/ UploadDuplicate
    \/ UploadAppend
    \/ UploadFinish
    \/ PipelineFile
    \/ PipelineFinish

SpecBatch == InitBatch /\ [][NextBatch]_vars

\* The batch gave exactly one outcome for each document, in input order.
OneOutcomePerDocument ==
    /\ Len(processed_data) = Len(documents)
    /\ \A k \in DOMAIN processed_data : processed_data[k].filename = k

\* The upload loop alone confines every failure to its document.
UploadLoopConfinesFailures ==
    driver = "upload" =>
        /\ batch_pc # "aborted"
        /\ batch_pc = "done" => OneOutcomePerDocument

\* C16: in both batch drivers a failure while processing one document is
\* confined to that document: the batch is never abandoned, every later
\* document is processed, and there is exactly one outcome for each input
\* document in input order.
C16_FailureConfinedToDocument ==
    /\ batch_pc # "aborted"
    /\ batch_pc = "done" => OneOutcomePerDocument

\* The document was processed with the fallback context: its invoice row
\* carries the temporary vendor id.
FellBack(k) ==
    /\ processed_data[k].invoice_df # <<>>
    /\ processed_data[k].invoice_df[1].vendor_id < 0

\* The file was reported failed after its frames were put into the result:
\* the read of the vendor's name (line 178) raised.
FailedAfterFrames(k) ==
    /\ processed_data[k].status = "failed"
    /\ processed_data[k].invoice_df # <<>>

\* C26: a document processed with the fallback context ("Unknown Vendor")
\* is reported by process_single_file with final status "partial", never
\* "success"; a file whose processing raised after the frames were built
\* is set aside.
C26_FallbackReportedPartial ==
    driver = "upload" =>
        \A k \in DOMAIN processed_data :
            (FellBack(k) /\ ~FailedAfterFrames(k)) =>
                processed_data[k].status = "partial"

\* The invoice number the patterns extracted from document k; None when the
\* document returned no frames or the pattern did not match.
ExtractedNumber(k) ==
    IF processed_data[k].invoice_df = <<>> THEN PyNone
    ELSE processed_data[k].invoice_df[1].invoice_number

\* The document returned frames and its invoice number was extracted.
NumberExtracted(k) == Truthy(ExtractedNumber(k))

\* Documents j and k returned frames with the same vendor id and the same
\* extracted invoice number.
SamePair(j, k) ==
    /\ processed_data[j].invoice_df # <<>>
    /\ processed_data[k].invoice_df # <<>>
    /\ processed_data[j].vendor_id = processed_data[k].vendor_id
    /\ ExtractedNumber(j) = ExtractedNumber(k)

FlaggedInBatch(k) == processed_data[k].message = "Duplicate in batch"

\* C27: in the upload loop a document is flagged as an in-batch duplicate
\* exactly when its invoice number exists and an earlier document of the
\* batch, not itself flagged, has the same (vendor_id, invoice_number); a
\* document without an extracted invoice number is neither flagged nor
\* recorded in the seen set. Batches with a file whose processing raised
\* after the frames were built are set aside.
C27_InBatchDuplicates ==
    (driver = "upload" /\ \A k \in DOMAIN processed_data : ~FailedAfterFrames(k)) =>
        /\ \A k \in DOMAIN processed_data :
              FlaggedInBatch(k) <=>
                  /\ NumberExtracted(k)
                  /\ \E j \in 1..(k - 1) :
                        ~processed_data[j].is_duplicate /\ SamePair(j, k)
        /\ \A sig \in seen_invoices :
              \E k \in DOMAIN processed_data :
                  /\ NumberExtracted(k)
                  /\ sig = <<processed_data[k].vendor_id, ExtractedNumber(k)>>

\* Every document that returned frames carries an extracted number and a
\* vendor id, and the store answered every duplicate check: a document
\* whose pair is stored is flagged as a registry duplicate.
NumberedAndChecked ==
    \A k \in DOMAIN processed_data :
        processed_data[k].invoice_df # <<>> =>
            /\ NumberExtracted(k)
            /\ processed_data[k].vendor_id # 0
            /\ CheckDuplicateInvoice(invoices, processed_data[k].vendor_id,
                                     ExtractedNumber(k), "ok") # 0
                  => processed_data[k].is_duplicate

\* For such batches the upload loop flags as C27 says.
NumberedBatchesFlagged == NumberedAndChecked => C27_InBatchDuplicates

-----------------------------------------------------------------------------
(***************************************************************************)
(* Two calls of identify_vendor_and_get_regex, one after the other, on the *)
(* same document text.  The resolver variables hold the locals of the call *)
(* in progress; when the second call begins the locals of the first are    *)
(* kept in parked, and registry0 is the registry the second call found.    *)
(***************************************************************************)

\* extract_vendor_signals on documents of the vendor Rust, which the registry
\* does not know: any non-empty combination of its website, e-mail address,
\* telephone number as printed and name.
RustDocumentSignals ==
    {s \in [website                 : {PyNone, <<"r", "u", "s", "t", ".", "i", "o">>},
            vendor_email_id         : {PyNone, <<"h", "i", "@", "r", "u", "s", "t", ".", "i", "o">>},
            vendor_phone_number     : {PyNone, <<"5", "5", "5", "-", "9", "8", "7", "6">>},
            vendor_physical_address : {PyNone},
            vendor_name             : {PyNone, <<"R", "u", "s", "t">>}] :
        s # NoSignals}

\* Phase 1 reports every detail of the vendor as the document prints it, or
\* the request fails.
AgainPhase1 == Phase1Step({Phase1Good(VendorRust), LlmRaises})

\* Lines 1087-1109 of the second call: the caller passes the same text, so
\* extract_vendor_signals yields the same signals, and every local is new.
CallAgain ==
    /\ running = 1
    /\ res_pc \in {"done", "error"}
    /\ running' = 2
    /\ parked' = CallLocals
    /\ registry0' = [vendors |-> vendors, templates |-> templates]
    /\ res_pc' = "start"
    /\ lookups' = <<>>
    /\ vendor_id' = 0
    /\ matched_by' = "none"
    /\ phase1' = [vendor_master_data |-> PyNone]
    /\ new_regexes' = <<>>
    /\ new_vendor_id' = 0
    /\ llm_calls' = 0
    /\ llm_response' = NoLlmResponse
    /\ result' = NoResult
    /\ res_error' = "none"
    /\ UNCHANGED <<vendors, templates, signals>>
    /\ UNCHANGED <<segVars, extNotRaceVars>>

InitAgain ==
    /\ SegIdle
    /\ ExtNotRaceIdle
    /\ \E reg \in {[v |-> <<>>, t |-> <<>>],
                   [v |-> <<VendorBolt>>, t |-> <<StoredTemplate>>]} :
          /\ vendors = reg.v
          /\ templates = reg.t
    /\ registry0 = [vendors |-> vendors, templates |-> templates]
    /\ signals \in RustDocumentSignals
    /\ res_pc = "start"
    /\ ResolverLocalsInit
    /\ running = 1
    /\ parked = FreshCall(signals)

NextAgain ==
    \/ ResSearch
    \/ ResFound
    \/ AgainPhase1
    \/ RacePhase2
    \/ ResCreateVendor
    \/ ResSaveRegex
    \/ ResReturnCreated
    \/ CallAgain

SpecAgain == InitAgain /\ [][NextAgain]_vars

\* The first call returned after it derived a vendor and stored both the
\* vendor record and its template.
FirstCallPersisted ==
    /\ running = 2
    /\ parked.res_pc = "done"
    /\ parked.result.created
    /\ parked.new_vendor_id \in DOMAIN registry0.vendors
    /\ parked.new_vendor_id \in DOMAIN registry0.templates

\* The stored record of the first call's vendor can be found with one of
\* the document's signals: the value find_vendor_by_<kind> queries with
\* equals the stored field up to letter case.
StoredAsSearched ==
    \E n \in DOMAIN SignalOrder :
        LET kind  == SignalOrder[n]
            value == signals[SignalKey(kind)]
            field == registry0.vendors[parked.new_vendor_id][RegistryField(kind)]
        IN /\ Truthy(value)
           /\ Truthy(QueryValue(kind, value))
           /\ field # PyNone
           /\ Lower(field) = Lower(QueryValue(kind, value))

\* The second call took the match path to the first call's vendor and
\* changed nothing.
SecondCallMatched ==
    /\ vendors = registry0.vendors
    /\ templates = registry0.templates
    /\ res_pc \in {"done", "error"} =>
          /\ res_pc = "done"
          /\ ~result.created
          /\ result.vendor_id = parked.new_vendor_id
          /\ result.regex = registry0.templates[parked.new_vendor_id]
          /\ llm_calls = 0

\* An operation of the registry raised in the running call.
RegistryRaised == res_error = "DBError"

\* A second call matches the first call's vendor whenever one of the
\* document's signals finds the stored record and the registry answers.
SecondCallMatchesWhenStoredAsSearched ==
    (FirstCallPersisted /\ StoredAsSearched /\ ~RegistryRaised) => SecondCallMatched

\* C29: after a call has derived and persisted a new vendor for a document
\* with at least one vendor signal, a second call on the same text, with a
\* registry that answers, never creates a vendor or a template, and it
\* returns that vendor by the match path (created = false) with the stored
\* template.
C29_SecondCallMatches ==
    (FirstCallPersisted /\ ~RegistryRaised) => SecondCallMatched

-----------------------------------------------------------------------------
(***************************************************************************)
(* A candidate template validated by llm_phase2_generate_regex and, when   *)
(* accepted, applied to a text: as the dict the resolver returns for the   *)
(* first document, and as the stored list for later ones.                  *)
(***************************************************************************)

\* Fields in which a candidate differs from the sample template
MaxOddFields == 1

\* The sample text with a parenthesised item code and a capital N.
ParenText == <<"N", "1", " ", "d", "2", " ", "a", "3", " ", "o", "4">>
             \o <<"\n">> \o <<"S">>
             \o <<"\n">> \o <<"q", "5", " ", "x", "(", "6", ")", " ", "u", "7", " ", "p", "8", " ", "t", "9">>
             \o <<"\n">> \o <<"E">>

\* What a field of the candidate may hold: a non-capturing group before a
\* capturing one, an inline flag and no group, an inline flag and a group,
\* a class holding "(" with and without a group, escaped parentheses, no
\* parenthesis at all, and nothing.
OddPatterns ==
    {<<"(", "?", ":", "n", ")", "(", "1", ")">>,
     <<"(", "?", "i", ")", "N", "1">>,
     <<"(", "?", "i", ")", "n", "(", "1", ")">>,
     <<"[", "(", "]", "6">>,
     <<"x", "[", "(", "]", "(", "6", ")">>,
     <<"\\", "(", "6", "\\", ")">>,
     <<"x", "6">>,
     <<>>}

CandidateRejected == [raised |-> "Phase2ValidationError"]

\* llm_phase2_generate_regex, lines 585-723, on the model's answer: the
\* parsed object is returned when validation accepts it.
Phase2Accept ==
    /\ template = <<>>
    /\ by_template = NotApplied
    /\ \E X \in VariedKeySets(MaxOddFields) : \E f \in [X -> OddPatterns] :
          LET resp == Phase2Object(TemplateWith(f)) IN
          IF Phase2Validate(resp).ok
          THEN /\ template' = resp.root
               /\ UNCHANGED by_template
          ELSE /\ by_template' = CandidateRejected
               /\ UNCHANGED template
    /\ UNCHANGED <<text, by_stored>>
    /\ UNCHANGED notApplyVars

InitAccepted ==
    /\ text \in {SampleText, ParenText}
    /\ template = <<>>
    /\ by_template = NotApplied
    /\ by_stored = NotApplied
    /\ SegIdle
    /\ ResolverIdle
    /\ ExtNotApplyIdle

NextAccepted ==
    \/ Phase2Accept
    \/ RtApplyTemplate
    \/ RtSaveTemplate
    \/ RtApplyStored

SpecAccepted == InitAccepted /\ [][NextAccepted]_vars

\* The fields whose pattern extract_val applies.
GroupFields == TemplateKeys \ MarkerFields

\* Every pattern of the accepted template that extract_val searches with
\* has a capturing group.
EveryPatternHasGroup ==
    \A k \in GroupFields :
        LET pattern == AdapterList(template)[ListIndex(k)]
        IN HasText(pattern) => ReHasGroup(pattern)

\* An accepted template whose patterns all have a capturing group is
\* applied without an exception, from the dict and from the stored list.
GroupedTemplateApplies ==
    (template # <<>> /\ EveryPatternHasGroup) =>
        /\ by_template # NotApplied => by_template.raised = "none"
        /\ by_stored # NotApplied => by_stored.raised = "none"

\* C30: a template accepted by the phase-2 validation is applied by
\* apply_regex_extraction without an exception, from the returned dict and
\* from the stored list: a pattern whose counted capture groups are at
\* least 1 has a group 1 whenever it matches.
C30_AcceptedTemplateApplies ==
    template # <<>> =>
        /\ by_template # NotApplied => by_template.raised = "none"
        /\ by_stored # NotApplied => by_stored.raised = "none"

====
